---------------------------- MODULE Spec2Model ----------------------------
(***************************************************************************)
(* Canonicalisation-and-load pipeline of quant-test: the two CSV loaders   *)
(* (load_daily_snapshot, load_history_from_stock_csv), the Conventions     *)
(* helpers and the DuckDB store adapter.                                   *)
(*                                                                         *)
(* Modelling conventions                                                   *)
(*  - A string that the code inspects character by character (a ticker)    *)
(*    is a sequence of one-character strings "0".."9"; an exchange suffix  *)
(*    ".SH", ".SZ", ".BJ" is one token of three characters.                *)
(*  - A date is a day number; NoDate (0) is "unparsable / absent".         *)
(*  - A price is a number of thousandths (10.00 is 10000); Null (-1) is    *)
(*    NaN / SQL NULL, NotNumeric (-2) a raw cell that is not a number.     *)
(*  - The nine numeric columns that every statement treats exactly like    *)
(*    close (open, high, low, pct_change, volume, amount, turnover,        *)
(*    market_cap, float_cap: coerced, carried through, overwritten by the  *)
(*    upsert) are represented by close.                                    *)
(***************************************************************************)
EXTENDS Integers, Sequences, FiniteSets, TLC

VARIABLES
    store,      \* committed rows of daily_market_snapshot
    columns,    \* column names of daily_market_snapshot, in table order
    now,        \* the clock read by CURRENT_TIMESTAMP
    pc,         \* "idle", or the loader whose load_files is running
    txn,        \* the table as the open transaction of load_files sees it
    cur,        \* progress of the running load_files
    last,       \* record of the operation that finished last
    arg,        \* input of the function applied
    res,        \* its result
    conn        \* the connections that are open, each named by its opener

vars == <<store, columns, now, pc, txn, cur, last, arg, res, conn>>

-----------------------------------------------------------------------------
(* Bounds of the model *)

MaxRows == 1        \* rows per file loaded into the store
MaxFiles == 2       \* files per multi-file load
MaxBatchRows == 2   \* rows per batch saved
MaxClock == 2       \* operations per behaviour
MaxRuns == 3        \* runs of load_files on one list
MaxCleanRows == 2    \* rows per file handed to clean_file alone

-----------------------------------------------------------------------------
(* Values *)

Null == -1
NotNumeric == -2
NoDate == 0

Digits == {"0", "1", "2", "3", "4", "5", "6", "7", "8", "9"}
Suffixes == {".SH", ".SZ", ".BJ"}

\* len(s) of the Python string a token sequence stands for
RECURSIVE StrLen(_)
StrLen(s) ==
    IF s = <<>> THEN 0
    ELSE (IF Head(s) \in Suffixes THEN 3 ELSE 1) + StrLen(Tail(s))

\* s.startswith(p) for one prefix p
StartsWith(s, p) ==
    /\ Len(s) >= Len(p)
    /\ SubSeq(s, 1, Len(p)) = p

\* s.startswith((p1, p2, ...)) for a tuple of prefixes
StartsWithAny(s, ps) == \E p \in ps : StartsWith(s, p)

\* s.endswith((".SH", ".SZ", ".BJ"))
EndsWithSuffix(s) == Len(s) > 0 /\ s[Len(s)] \in Suffixes

\* s.zfill(6): pad with "0" on the left up to six characters
RECURSIVE ZFill6(_)
ZFill6(s) == IF StrLen(s) >= 6 THEN s ELSE ZFill6(<<"0">> \o s)

\* str(int(s)) for a string of digits: leading zeros are lost
RECURSIVE StripZeros(_)
StripZeros(s) ==
    IF Len(s) > 1 /\ Head(s) = "0" THEN StripZeros(Tail(s)) ELSE s

AllDigits(s) == \A i \in 1..Len(s) : s[i] \in Digits


-----------------------------------------------------------------------------
(* Conventions: qrp_atlas/contracts/conventions.py *)

TICKER_LENGTH == 6

SH_TICKER_PREFIXES ==
    {<<"6", "0">>, <<"6", "8">>, <<"5", "0">>, <<"5", "1">>, <<"5", "2">>,
     <<"5", "3">>, <<"5", "4">>, <<"5", "5">>, <<"5", "6">>, <<"5", "7">>,
     <<"5", "8">>, <<"5", "9">>}
SZ_TICKER_PREFIXES ==
    {<<"0", "0">>, <<"3", "0">>, <<"1", "2">>, <<"1", "5">>, <<"1", "6">>,
     <<"1", "7">>, <<"1", "8">>, <<"1", "9">>}
BJ_TICKER_PREFIXES ==
    {<<"4", "3">>, <<"8", "3">>, <<"8", "7">>, <<"8", "8">>, <<"9", "2">>}

LIMIT_UP_PCT == 10
LIMIT_UP_ST_PCT == 5

format_ticker(ticker) ==
    IF StrLen(ticker) < TICKER_LENGTH THEN ZFill6(ticker) ELSE ticker

get_exchange(ticker) ==
    LET t == format_ticker(ticker) IN
    IF StartsWithAny(t, SH_TICKER_PREFIXES) THEN "SH"
    ELSE IF StartsWithAny(t, SZ_TICKER_PREFIXES) THEN "SZ"
    ELSE IF StartsWithAny(t, BJ_TICKER_PREFIXES) THEN "BJ"
    ELSE "UNKNOWN"

calc_limit_up_pct(is_st) == IF is_st THEN LIMIT_UP_ST_PCT ELSE LIMIT_UP_PCT

-----------------------------------------------------------------------------
(* Ticker rules of the two loaders *)

\* load_daily_snapshot.normalize_ticker: the three startswith tuples
DailyShPrefixes ==
    {<<"6", "0", "0">>, <<"6", "0", "1">>, <<"6", "0", "3">>,
     <<"6", "0", "5">>, <<"6", "8", "8">>, <<"6", "8", "9">>}
DailySzPrefixes ==
    {<<"0", "0", "0">>, <<"0", "0", "1">>, <<"0", "0", "2">>,
     <<"0", "0", "3">>, <<"3", "0", "0">>, <<"3", "0", "1">>}
BjPrefixes == {<<"4">>, <<"8">>, <<"9", "2", "0">>}

\* load_history_from_stock_csv.normalize_ticker adds "302" to the SZ tuple
HistorySzPrefixes == DailySzPrefixes \cup {<<"3", "0", "2">>}

\* the suffix rules of load_daily_snapshot.normalize_ticker for a padded code
DailySuffixed(ticker) ==
    IF StartsWithAny(ticker, DailyShPrefixes) THEN Append(ticker, ".SH")
    ELSE IF StartsWithAny(ticker, DailySzPrefixes) THEN Append(ticker, ".SZ")
    ELSE IF StartsWithAny(ticker, BjPrefixes) THEN Append(ticker, ".BJ")
    ELSE ticker

DailyNormalizeTicker(raw) == DailySuffixed(ZFill6(raw))

\* the suffix rules of load_history_from_stock_csv.normalize_ticker
HistorySuffixed(code) ==
    IF StartsWithAny(code, DailyShPrefixes) THEN Append(code, ".SH")
    ELSE IF StartsWithAny(code, HistorySzPrefixes) THEN Append(code, ".SZ")
    ELSE IF StartsWithAny(code, BjPrefixes) THEN Append(code, ".BJ")
    ELSE code

HistoryNormalizeTicker(raw) ==
    IF EndsWithSuffix(raw) THEN raw ELSE HistorySuffixed(ZFill6(raw))

\* regex \.(SH|SZ|BJ)$ searched anywhere in the string (str.contains)
DailyTickerValid(t) == EndsWithSuffix(t)

\* regex \d{6}\.(SH|SZ|BJ) matched against the whole string (str.fullmatch)
HistoryTickerValid(t) ==
    /\ Len(t) = 7
    /\ AllDigits(SubSeq(t, 1, 6))
    /\ t[7] \in Suffixes

\* limit_pct of clean_file, from the normalized ticker and the ST flag
Chi20Daily ==
    {<<"3", "0", "0">>, <<"3", "0", "1">>, <<"6", "8", "8">>, <<"6", "8", "9">>}
Chi20History == Chi20Daily \cup {<<"3", "0", "2">>}
MainBoardPrefixes ==
    {<<"6", "0", "0">>, <<"6", "0", "1">>, <<"6", "0", "3">>, <<"6", "0", "5">>,
     <<"0", "0", "0">>, <<"0", "0", "1">>, <<"0", "0", "2">>, <<"0", "0", "3">>}

LimitPctWith(ticker, is_st, chi20) ==
    IF is_st /\ StartsWithAny(ticker, MainBoardPrefixes) THEN 5
    ELSE IF StartsWithAny(ticker, BjPrefixes) THEN 30
    ELSE IF StartsWithAny(ticker, chi20) THEN 20
    ELSE 10

DailyLimitPct(ticker, is_st) == LimitPctWith(ticker, is_st, Chi20Daily)
HistoryLimitPct(ticker, is_st) == LimitPctWith(ticker, is_st, Chi20History)

-----------------------------------------------------------------------------
(* Cleaning pipeline: clean_file of both loaders                            *)
(*                                                                         *)
(* An input file is [name_date, has_date_col, has_name_col, rows]:         *)
(* name_date is the date in a name of the form YYYY-MM-DD_Astock.csv       *)
(* (NoDate when the name has none), has_date_col / has_name_col say        *)
(* whether the CSV has a trade_date / name column, and rows are the raw    *)
(* records [trade_date, ticker, name, close, pre_close].                   *)

NoName == "NA"
STNames == {"ST PINGAN", "*st wanke"}

\* str.contains("ST", case=False, na=False)
ContainsST(name) == name \in STNames

\* astype(str) of a name cell: a missing cell becomes the text "nan"
NameAsStr(name) == IF name = NoName THEN "nan" ELSE name

\* pd.to_numeric(errors="coerce")
ToNumeric(v) == IF v < 0 THEN Null ELSE v

\* n/d rounded to an integer, ties to even (numpy's round)
RoundHalfEven(n, d) ==
    LET q == n \div d
        r == n % d
    IN  IF 2 * r < d THEN q
        ELSE IF 2 * r > d THEN q + 1
        ELSE IF q % 2 = 0 THEN q ELSE q + 1

\* (pre_close * (1 + limit_pct / 100)).round(2), in thousandths
LimitUpPrice(pre_close, pct) ==
    IF pre_close = Null THEN Null
    ELSE 10 * RoundHalfEven(pre_close * (100 + pct), 1000)

\* (pre_close * (1 - limit_pct / 100)).round(2), in thousandths
LimitDownPrice(pre_close, pct) ==
    IF pre_close = Null THEN Null
    ELSE 10 * RoundHalfEven(pre_close * (100 - pct), 1000)

\* the comparison without its tolerance, and strict
IsLimitUpStrict(close, up) == close # Null /\ up # Null /\ close > up

\* close >= limit_up_price - 0.001; a comparison with NaN is False
IsLimitUp(close, up) == close # Null /\ up # Null /\ close >= up - 1

\* close <= limit_down_price + 0.001
IsLimitDown(close, down) == close # Null /\ down # Null /\ close <= down + 1

\* order of the characters of a ticker: "." sorts before the digits
TokRank(tok) ==
    CASE tok = ".BJ" -> 0 [] tok = ".SH" -> 1 [] tok = ".SZ" -> 2
      [] tok = "0" -> 3 [] tok = "1" -> 4 [] tok = "2" -> 5 [] tok = "3" -> 6
      [] tok = "4" -> 7 [] tok = "5" -> 8 [] tok = "6" -> 9 [] tok = "7" -> 10
      [] tok = "8" -> 11 [] OTHER -> 12

RECURSIVE StrLess(_, _)
StrLess(a, b) ==
    IF b = <<>> THEN FALSE
    ELSE IF a = <<>> THEN TRUE
    ELSE IF Head(a) = Head(b) THEN StrLess(Tail(a), Tail(b))
    ELSE TokRank(Head(a)) < TokRank(Head(b))

KeyOf(r) == <<r.trade_date, r.ticker>>

KeyLess(r1, r2) ==
    \/ r1.trade_date < r2.trade_date
    \/ r1.trade_date = r2.trade_date /\ StrLess(r1.ticker, r2.ticker)

RECURSIVE InsertSorted(_, _)
InsertSorted(r, sorted) ==
    IF sorted = <<>> THEN <<r>>
    ELSE IF KeyLess(r, Head(sorted)) THEN <<r>> \o sorted
    ELSE <<Head(sorted)>> \o InsertSorted(r, Tail(sorted))

\* df.sort_values(["trade_date", "ticker"])
RECURSIVE SortRows(_)
SortRows(rows) ==
    IF rows = <<>> THEN <<>>
    ELSE InsertSorted(Head(rows), SortRows(Tail(rows)))

\* a validate_pk that finds no duplicate
NoDuplicateFound(rows) == FALSE

\* df.duplicated(subset=["trade_date", "ticker"]).any()
HasDuplicateKey(rows) ==
    \E i, j \in 1..Len(rows) : i < j /\ KeyOf(rows[i]) = KeyOf(rows[j])

Failed(err) == [ok |-> FALSE, err |-> err, rows |-> <<>>]
Cleaned(rows) == [ok |-> TRUE, err |-> "none", rows |-> rows]

\* pd.read_csv without a dtype reads a column of digit strings as integers
DailyReadTicker(file, raw) ==
    IF \A i \in 1..Len(file.rows) : AllDigits(file.rows[i].ticker)
    THEN StripZeros(raw) ELSE raw

\* the columns of one record once clean_file has computed the flags, the
\* three helper columns limit_pct, limit_up_price, limit_down_price still
\* in place
DerivedRow(trade_date, ticker, name, close, pre_close, is_st, limit_pct) ==
    [trade_date |-> trade_date, ticker |-> ticker, name |-> name,
     close |-> close, pre_close |-> pre_close, is_st |-> is_st,
     limit_pct |-> limit_pct,
     limit_up_price |-> LimitUpPrice(pre_close, limit_pct),
     limit_down_price |-> LimitDownPrice(pre_close, limit_pct),
     is_limit_up |-> IsLimitUp(close, LimitUpPrice(pre_close, limit_pct)),
     is_limit_down |-> IsLimitDown(close, LimitDownPrice(pre_close, limit_pct))]

\* load_daily_snapshot.clean_file from "# ST" to the flags, for one record
DailyFlagged(trade_date, ticker, name, close, pre_close) ==
    DerivedRow(trade_date, ticker, name, close, pre_close, ContainsST(name),
               DailyLimitPct(ticker, ContainsST(name)))

\* load_daily_snapshot.clean_file from the rename to the flags, for one
\* record: ticker, name, numeric columns, date, ST, limits
DailyDerive(file, r) ==
    DailyFlagged(IF file.has_date_col THEN r.trade_date ELSE file.name_date,
                 DailyNormalizeTicker(DailyReadTicker(file, r.ticker)),
                 NameAsStr(r.name), ToNumeric(r.close), ToNumeric(r.pre_close))

\* df.drop(columns=["limit_pct", "limit_up_price", "limit_down_price"])
DropHelpers(d) ==
    [trade_date |-> d.trade_date, ticker |-> d.ticker, name |-> d.name,
     close |-> d.close, pre_close |-> d.pre_close, is_st |-> d.is_st,
     is_limit_up |-> d.is_limit_up, is_limit_down |-> d.is_limit_down]

DailyCleanRow(file, r) == DropHelpers(DailyDerive(file, r))

\* a validate_trade_date that returns at once
DatesNotChecked(unique, name_date) == "ok"

\* validate_trade_date for the set of dates of the file: "ok", or the
\* error it raises
DatesAgainstName(unique, name_date) ==
    IF name_date = NoDate THEN "ok"
    ELSE IF Cardinality(unique) # 1 THEN "multiple_trade_dates"
    ELSE IF unique # {name_date} THEN "trade_date_mismatch"
    ELSE "ok"

ValidateTradeDate(rows, name_date) ==
    DatesAgainstName({rows[i].trade_date : i \in 1..Len(rows)}, name_date)

\* the end of load_daily_snapshot.clean_file on the sorted rows:
\* validate_pk, validate_ticker, validate_trade_date, return
DailyValidate(sorted, name_date) ==
    IF HasDuplicateKey(sorted) THEN Failed("duplicate_pk")
    ELSE IF \E i \in 1..Len(sorted) : ~DailyTickerValid(sorted[i].ticker)
        THEN Failed("invalid_ticker")
    ELSE IF ValidateTradeDate(sorted, name_date) # "ok"
        THEN Failed(ValidateTradeDate(sorted, name_date))
    ELSE Cleaned(sorted)

\* the date conversion, which raises on a date it cannot parse, then the
\* sort and the validations
DatesThenValidate(rows, name_date) ==
    IF \E i \in 1..Len(rows) : rows[i].trade_date = NoDate
    THEN Failed("date_parse")
    ELSE DailyValidate(SortRows(rows), name_date)

\* load_daily_snapshot.clean_file
DailyCleanFile(file) ==
    IF file.rows = <<>> THEN Failed("empty")
    ELSE IF ~file.has_date_col /\ file.name_date = NoDate
        THEN Failed("missing_columns")
    ELSE IF ~file.has_name_col THEN Failed("missing_columns")
    ELSE DatesThenValidate(
             [i \in 1..Len(file.rows) |-> DailyCleanRow(file, file.rows[i])],
             file.name_date)

\* df["name"].isna().all(), the name column being added as NA when absent
AllNamesNA(file) ==
    \/ ~file.has_name_col
    \/ \A i \in 1..Len(file.rows) : file.rows[i].name = NoName

\* load_history_from_stock_csv.clean_file from the ST flag to the limit
\* flags, for one record
HistoryFlagged(trade_date, ticker, name, close, pre_close, is_st) ==
    DerivedRow(trade_date, ticker, name, close, pre_close, is_st,
               HistoryLimitPct(ticker, is_st))

HistoryDerive(file, r) ==
    HistoryFlagged(r.trade_date, HistoryNormalizeTicker(r.ticker),
                   IF AllNamesNA(file) THEN NoName ELSE NameAsStr(r.name),
                   ToNumeric(r.close), ToNumeric(r.pre_close),
                   IF AllNamesNA(file) THEN FALSE
                   ELSE ContainsST(NameAsStr(r.name)))

HistoryCleanRow(file, r) == DropHelpers(HistoryDerive(file, r))

\* the end of load_history_from_stock_csv.clean_file on the sorted rows:
\* validate_pk, validate_ticker, return
HistoryValidate(sorted) ==
    IF HasDuplicateKey(sorted) THEN Failed("duplicate_pk")
    ELSE IF \E i \in 1..Len(sorted) : ~HistoryTickerValid(sorted[i].ticker)
        THEN Failed("invalid_ticker")
    ELSE Cleaned(sorted)

HistoryDatesThenValidate(rows) ==
    IF \E i \in 1..Len(rows) : rows[i].trade_date = NoDate
    THEN Failed("date_parse")
    ELSE HistoryValidate(SortRows(rows))

\* load_history_from_stock_csv.clean_file
HistoryCleanFile(file) ==
    IF file.rows = <<>> THEN Failed("empty")
    ELSE IF ~file.has_date_col THEN Failed("missing_columns")
    ELSE HistoryDatesThenValidate(
             [i \in 1..Len(file.rows) |-> HistoryCleanRow(file, file.rows[i])])

CleanFile(loader, file) ==
    IF loader = "daily" THEN DailyCleanFile(file) ELSE HistoryCleanFile(file)

-----------------------------------------------------------------------------
(* Table layouts                                                            *)

\* EXPECTED_COLUMNS of both loaders: the columns of a cleaned batch
EXPECTED_COLUMNS ==
    <<"trade_date", "ticker", "name", "open", "high", "low", "close",
      "pre_close", "pct_change", "volume", "amount", "turnover", "market_cap",
      "float_cap", "is_st", "is_limit_up", "is_limit_down">>

\* DAILY_MARKET_SNAPSHOT.column_names() of the Table Schema Registry
RegistryColumns ==
    <<"trade_date", "ticker", "name", "open", "high", "low", "close",
      "pct_change", "pre_close", "volume", "amount", "turnover", "market_cap",
      "float_cap", "is_st", "is_limit_up", "is_limit_down", "created_at">>

\* CREATE TABLE daily_market_snapshot of scripts/init_db.py
ScriptColumns ==
    <<"trade_date", "ticker", "name", "open", "high", "low", "close",
      "pct_change", "volume", "amount", "turnover", "market_cap",
      "float_cap", "is_st", "is_limit_up", "is_limit_down", "created_at">>

\* the columns assigned by ON CONFLICT ... DO UPDATE SET of both loaders
UpsertSetColumns ==
    {"name", "open", "high", "low", "close", "pre_close", "pct_change",
     "volume", "amount", "turnover", "market_cap", "float_cap", "is_st",
     "is_limit_up", "is_limit_down"}

ColumnSet(cols) == {cols[i] : i \in 1..Len(cols)}

\* DuckDB type of a column (ColumnSpec.dtype); a column the registry does not
\* know is a VARCHAR
ColType(c) ==
    CASE c = "trade_date" -> "DATE"
      [] c \in {"ticker", "name"} -> "VARCHAR"
      [] c = "volume" -> "BIGINT"
      [] c \in {"is_st", "is_limit_up", "is_limit_down"} -> "BOOLEAN"
      [] c = "created_at" -> "TIMESTAMP"
      [] c \in {"open", "high", "low", "close", "pct_change", "pre_close",
                "amount", "turnover", "market_cap", "float_cap"} -> "DOUBLE"
      [] OTHER -> "VARCHAR"

\* implicit casts INSERT applies between a selected column and a table column
Castable(from, to) ==
    \/ from = to
    \/ {from, to} \subseteq {"DOUBLE", "BIGINT", "BOOLEAN"}
    \/ from = "DATE" /\ to = "TIMESTAMP"
    \/ to = "VARCHAR"

\* INSERT INTO t SELECT * FROM df binds the selected columns to the table's
\* columns by position: as many columns as the table has, each castable
SelectStarBinds(dfcols, tcols) ==
    /\ Len(dfcols) = Len(tcols)
    /\ \A i \in 1..Len(dfcols) : Castable(ColType(dfcols[i]), ColType(tcols[i]))

\* UPSERT_SQL of load_daily_snapshot: SELECT * plus the SET list
DailyUpsertBinds(tcols) ==
    /\ SelectStarBinds(EXPECTED_COLUMNS, tcols)
    /\ UpsertSetColumns \subseteq ColumnSet(tcols)

\* UPSERT_SQL of load_history_from_stock_csv names its columns
HistoryUpsertBinds(tcols) ==
    ColumnSet(EXPECTED_COLUMNS) \subseteq ColumnSet(tcols)

\* ensure_pre_close_column: ALTER TABLE ... ADD COLUMN pre_close DOUBLE
EnsurePreCloseColumn(tcols) ==
    IF "pre_close" \in ColumnSet(tcols) THEN tcols
    ELSE Append(tcols, "pre_close")

-----------------------------------------------------------------------------
(* Store: the daily_market_snapshot table as a set of rows                  *)

Keys(table) == {KeyOf(t) : t \in table}

RowSet(rows) == {rows[i] : i \in 1..Len(rows)}

\* the fifteen columns of the SET list, as carried by a row of the model
Payload(r) ==
    [name |-> r.name, close |-> r.close, pre_close |-> r.pre_close,
     is_st |-> r.is_st, is_limit_up |-> r.is_limit_up,
     is_limit_down |-> r.is_limit_down]

Stored(r, created_at) ==
    [trade_date |-> r.trade_date, ticker |-> r.ticker, name |-> r.name,
     close |-> r.close, pre_close |-> r.pre_close, is_st |-> r.is_st,
     is_limit_up |-> r.is_limit_up, is_limit_down |-> r.is_limit_down,
     created_at |-> created_at]

\* created_at of a row inserted without a value for it:
\* DEFAULT CURRENT_TIMESTAMP where the table has the column
DefaultCreatedAt(tcols, ts) ==
    IF "created_at" \in ColumnSet(tcols) THEN ts ELSE Null

\* Variants of the store's statements, each without one clause of the SQL.
\* INSERT without the ON CONFLICT clause and without the key constraint
UpsertWithoutConflictClause(table, tcols, rows, ts) ==
    table \cup {Stored(r, DefaultCreatedAt(tcols, ts)) : r \in RowSet(rows)}

\* ON CONFLICT DO NOTHING: the stored row wins
UpsertDoNothingOnConflict(table, tcols, rows, ts) ==
    table \cup {Stored(r, DefaultCreatedAt(tcols, ts)) :
                    r \in {x \in RowSet(rows) : KeyOf(x) \notin Keys(table)}}

\* a conflicting row is removed instead of updated
UpsertRemovingOnConflict(table, tcols, rows, ts) ==
    {t \in table : KeyOf(t) \notin Keys(RowSet(rows))}
        \cup {Stored(r, DefaultCreatedAt(tcols, ts)) :
                  r \in {x \in RowSet(rows) : KeyOf(x) \notin Keys(table)}}

\* ROLLBACK that keeps what the transaction wrote
RollbackKeepingWork(committed, work) == work

\* INSERT ... ON CONFLICT (trade_date, ticker) DO UPDATE SET <15 columns>:
\* a row whose key is new is inserted, a row whose key exists has the SET
\* columns overwritten and keeps the columns that are not in the SET list
Upsert(table, tcols, rows, ts) ==
    LET incoming == RowSet(rows)
        Old(r) == CHOOSE t \in table : KeyOf(t) = KeyOf(r)
        CreatedAt(r) ==
            IF KeyOf(r) \in Keys(table) THEN Old(r).created_at
            ELSE DefaultCreatedAt(tcols, ts)
    IN  {t \in table : KeyOf(t) \notin Keys(incoming)}
            \cup {Stored(r, CreatedAt(r)) : r \in incoming}

UpsertBinds(loader, tcols) ==
    IF loader = "daily" THEN DailyUpsertBinds(tcols)
    ELSE HistoryUpsertBinds(tcols)

\* COMMIT makes the transaction's table the stored one
Commit(committed, work) == work

\* ROLLBACK discards the transaction's table
Rollback(committed, work) == committed

\* UPSERT_SQL for the cleaned file c; fault says whether the store fails
\* the statement (an I/O error).  err is "none" or the error raised.
UpsertCleaned(loader, tcols, table, c, ts, fault) ==
    IF ~c.ok THEN [err |-> c.err, rows |-> <<>>, table |-> table]
    ELSE IF ~UpsertBinds(loader, tcols)
        THEN [err |-> "binder_error", rows |-> <<>>, table |-> table]
    ELSE IF fault THEN [err |-> "store_error", rows |-> <<>>, table |-> table]
    ELSE [err |-> "none", rows |-> c.rows,
          table |-> Upsert(table, tcols, c.rows, ts)]

\* one turn of the loop of load_files: clean_file, then UPSERT_SQL on the
\* transaction's table
FileStep(loader, tcols, table, file, ts, fault) ==
    UpsertCleaned(loader, tcols, table, CleanFile(loader, file), ts, fault)

\* the loop of load_files inside the transaction, from file i on: each file
\* in list order, the first failure ends the loop.  n counts the files
\* upserted; faultAt is the position of the file at which the store fails
\* (0: it fails at none).
RECURSIVE RunFiles(_, _, _, _, _, _, _)
RECURSIVE AfterStep(_, _, _, _, _, _, _, _)
RunFiles(loader, tcols, table, files, ts, faultAt, i) ==
    IF i > Len(files)
    THEN [ok |-> TRUE, err |-> "none", table |-> table, n |-> i - 1]
    ELSE AfterStep(loader, tcols, table, files, ts, faultAt, i,
                   FileStep(loader, tcols, table, files[i], ts, faultAt = i))

\* what the loop does with the outcome of its turn for file i
AfterStep(loader, tcols, table, files, ts, faultAt, i, step) ==
    IF step.err # "none"
    THEN [ok |-> FALSE, err |-> step.err, table |-> table, n |-> i - 1]
    ELSE RunFiles(loader, tcols, step.table, files, ts, faultAt, i + 1)

\* the table layout load_files works on: the history loader calls
\* ensure_pre_close_column before BEGIN TRANSACTION, the daily loader does not
ColumnsForLoad(loader, tcols) ==
    IF loader = "history" THEN EnsurePreCloseColumn(tcols) ELSE tcols

\* the end of load_files: COMMIT after the loop, or the except branch,
\* ROLLBACK and re-raise
EndOfLoad(committed, cols, run) ==
    [ok |-> run.ok, err |-> run.err, n |-> run.n, columns |-> cols,
     table |-> IF run.ok THEN Commit(committed, run.table)
               ELSE Rollback(committed, run.table)]

\* load_files of either loader
LoadFilesResult(loader, tcols, committed, files, ts, faultAt) ==
    EndOfLoad(committed, ColumnsForLoad(loader, tcols),
              RunFiles(loader, ColumnsForLoad(loader, tcols), committed,
                       files, ts, faultAt, 1))

-----------------------------------------------------------------------------
(* Store adapter: save_daily_market_snapshot                                *)
(* A batch is [cols, rows]: the column names of the DataFrame, in order,   *)
(* and its rows (with a created_at cell each).                             *)

\* validate_schema(df, "daily_market_snapshot"): the registry's columns
\* that the batch lacks
MissingColumns(batch) == ColumnSet(RegistryColumns) \ ColumnSet(batch.cols)

\* canonicalize: numeric, boolean and date coercion of one row
CanonicalizeRow(r) ==
    [r EXCEPT !.close = ToNumeric(@), !.pre_close = ToNumeric(@)]

\* quick_validate(df, "daily_market_snapshot")
QuickValidate(batch) ==
    IF MissingColumns(batch) # {}
    THEN [ok |-> FALSE, err |-> "missing_columns", cols |-> batch.cols,
          rows |-> <<>>]
    ELSE [ok |-> TRUE, err |-> "none", cols |-> batch.cols,
          rows |-> [i \in 1..Len(batch.rows) |-> CanonicalizeRow(batch.rows[i])]]

\* DELETE that removes nothing
DeleteNothing(table, rows) == table

\* DELETE ... WHERE trade_date IN (SELECT trade_date FROM tmp_df)
DeleteByTradeDate(table, rows) ==
    {t \in table : t.trade_date \notin {rows[i].trade_date : i \in 1..Len(rows)}}

\* DELETE FROM daily_market_snapshot WHERE (trade_date, ticker) IN (batch)
DeleteKeys(table, rows) == {t \in table : KeyOf(t) \notin Keys(RowSet(rows))}

\* INSERT INTO daily_market_snapshot SELECT * FROM tmp_df: one statement,
\* which inserts every row or fails and inserts none
InsertSelectStar(table, tcols, dfcols, rows) ==
    IF ~SelectStarBinds(dfcols, tcols)
    THEN [ok |-> FALSE, err |-> "binder_error", table |-> table]
    ELSE IF \E i \in 1..Len(rows) : rows[i].trade_date = NoDate
    THEN [ok |-> FALSE, err |-> "not_null_violation", table |-> table]
    ELSE IF \/ HasDuplicateKey(rows)
            \/ Keys(RowSet(rows)) \cap Keys(table) # {}
    THEN [ok |-> FALSE, err |-> "pk_violation", table |-> table]
    ELSE [ok |-> TRUE, err |-> "none", table |-> table \cup RowSet(rows)]

\* the INSERT of save_daily_market_snapshot on the table the DELETE left
InsertAfterDelete(table, afterDelete, ins) ==
    [ok |-> ins.ok, err |-> ins.err, table |-> ins.table,
     deleted |-> table \ afterDelete]

DeleteThenInsert(tcols, table, v, afterDelete) ==
    InsertAfterDelete(table, afterDelete,
                      InsertSelectStar(afterDelete, tcols, v.cols, v.rows))

\* save_daily_market_snapshot after quick_validate returned v
SaveValidated(tcols, table, v, replace) ==
    IF ~v.ok
    THEN [ok |-> FALSE, err |-> v.err, table |-> table, deleted |-> {}]
    ELSE DeleteThenInsert(tcols, table, v,
                          IF replace THEN DeleteKeys(table, v.rows) ELSE table)

\* save_daily_market_snapshot(df, replace): no transaction is opened, so
\* the DELETE and the INSERT are committed one by one
SaveResult(tcols, table, batch, replace) ==
    SaveValidated(tcols, table, QuickValidate(batch), replace)

-----------------------------------------------------------------------------
(* Inputs of the store machine *)

Code600000 == <<"6", "0", "0", "0", "0", "0">>
Code999999 == <<"9", "9", "9", "9", "9", "9">>

Price10 == 10 * 1000   \* 10.00
Price11 == 11 * 1000   \* 11.00

\* the trade dates of the data loaded and saved
LoadDates == {1}

\* raw records of the files loaded into the store: a code of the SH main
\* board with a numeric and with a non-numeric close, a code that comes
\* with a suffix, and a code that no prefix rule matches
LoadRows ==
    [trade_date : LoadDates, ticker : {Code600000},
     name : {NoName}, close : {NotNumeric, Price11}, pre_close : {Price10}]
    \cup
    [trade_date : LoadDates,
     ticker : {Append(Code999999, ".SH"), Code999999},
     name : {NoName}, close : {Price11}, pre_close : {Price10}]

SeqsUpTo(S, n) == UNION {[1..k -> S] : k \in 0..n}

HistoryFiles ==
    {[name_date |-> NoDate, has_date_col |-> TRUE, has_name_col |-> FALSE,
      rows |-> rs] : rs \in SeqsUpTo(LoadRows, MaxRows)}

\* the dates in the names of the daily files: those of the rows, and the
\* day after
NameDates == LoadDates \cup {d + 1 : d \in LoadDates}

DailyFiles ==
    {[name_date |-> d, has_date_col |-> TRUE, has_name_col |-> TRUE,
      rows |-> rs] : d \in NameDates, rs \in SeqsUpTo(LoadRows, MaxRows)}

FilesOf(loader) == IF loader = "daily" THEN DailyFiles ELSE HistoryFiles

\* rows of the batches handed to save_daily_market_snapshot
BatchRows ==
    [trade_date : LoadDates,
     ticker : {Append(Code600000, ".SH"), Append(Code999999, ".SH")},
     name : {NoName}, close : {Price11}, pre_close : {Price10},
     is_st : {FALSE}, is_limit_up : {FALSE}, is_limit_down : {FALSE},
     created_at : {Null}]

Batches ==
    [cols : {RegistryColumns, EXPECTED_COLUMNS, Append(RegistryColumns, "extra")},
     rows : SeqsUpTo(BatchRows, MaxBatchRows) \ {<<>>}]

-----------------------------------------------------------------------------
(* The store machine *)

NoWrites == [k \in {} |-> 0]

\* the rows written so far by the files of a load, the later file winning
Override(written, rows) ==
    [k \in DOMAIN written \cup Keys(RowSet(rows)) |->
        IF k \in Keys(RowSet(rows))
        THEN CHOOSE r \in RowSet(rows) : KeyOf(r) = k
        ELSE written[k]]

Idle == [pre |-> {}, n |-> 0, written |-> NoWrites]

\* duckdb.connect(...) by the operation op, and con.close()
Open(cs, op) == cs \cup {op}
Close(cs, op) == cs \ {op}

NoArg == [fn |-> "none"]

\* what the record of a load keeps of the file at which it failed: the
\* date in its name and the dates of its rows
DatesOf(file) ==
    [name_date |-> file.name_date,
     dates |-> {file.rows[i].trade_date : i \in 1..Len(file.rows)}]

\* its value when no file has failed
NoFile == [name_date |-> NoDate, dates |-> {}]

Init ==
    /\ store = {}
    /\ columns \in {RegistryColumns, ScriptColumns}
    /\ now = 1
    /\ pc = "idle"
    /\ txn = {}
    /\ cur = Idle
    /\ last = [op |-> "init", loader |-> "none", replace |-> FALSE,
               ok |-> TRUE, err |-> "none", n |-> 0, pre |-> {},
               written |-> NoWrites, touched |-> {}, at |-> 0,
               file |-> NoFile]
    /\ arg = NoArg
    /\ res = NoArg
    /\ conn = {}

\* load_files up to BEGIN TRANSACTION: the connection is opened, the history
\* loader adds the pre_close column, the transaction starts
BeginLoad(loader) ==
    /\ pc = "idle"
    /\ now <= MaxClock
    /\ pc' = loader
    /\ columns' = ColumnsForLoad(loader, columns)
    /\ txn' = store
    /\ cur' = [pre |-> store, n |-> 0, written |-> NoWrites]
    /\ conn' = Open(conn, loader)
    /\ UNCHANGED <<store, now, last, arg, res>>

\* the record of a load that has ended; file is the file at which it
\* failed
Finished(loader, ok, err, file) ==
    [op |-> "load", loader |-> loader, replace |-> FALSE, ok |-> ok,
     err |-> err, n |-> cur.n, pre |-> cur.pre, written |-> cur.written,
     touched |-> DOMAIN cur.written, at |-> now, file |-> file]

\* the turn of the loop has had outcome step.  A failure runs the except
\* branch, ROLLBACK and re-raise, and leaves the with block, which closes
\* the connection.
StepTaken(loader, file, step) ==
    /\ IF step.err = "none"
       THEN /\ txn' = step.table
            /\ cur' = [cur EXCEPT !.n = @ + 1,
                                  !.written = Override(@, step.rows)]
            /\ UNCHANGED <<store, now, pc, last, conn>>
       ELSE /\ store' = Rollback(store, txn)
            /\ last' = Finished(loader, FALSE, step.err, DatesOf(file))
            /\ pc' = "idle"
            /\ txn' = {}
            /\ cur' = Idle
            /\ now' = now + 1
            /\ conn' = Close(conn, loader)
    /\ UNCHANGED <<columns, arg, res>>

\* one turn of the loop of load_files
LoadFile(loader, file, fault) ==
    /\ pc = loader
    /\ cur.n < MaxFiles
    /\ StepTaken(loader, file,
                 FileStep(loader, columns, txn, file, now, fault))

\* the list is exhausted: COMMIT, the with block ends and closes the
\* connection, and load_files returns
CommitLoad(loader) ==
    /\ pc = loader
    /\ store' = Commit(store, txn)
    /\ last' = Finished(loader, TRUE, "none", NoFile)
    /\ pc' = "idle"
    /\ txn' = {}
    /\ cur' = Idle
    /\ now' = now + 1
    /\ conn' = Close(conn, loader)
    /\ UNCHANGED <<columns, arg, res>>

LoadDaily ==
    \/ BeginLoad("daily")
    \/ \E file \in DailyFiles, fault \in BOOLEAN : LoadFile("daily", file, fault)
    \/ CommitLoad("daily")

LoadHistory ==
    \/ BeginLoad("history")
    \/ \E file \in HistoryFiles, fault \in BOOLEAN :
           LoadFile("history", file, fault)
    \/ CommitLoad("history")

\* con = get_connection(); try: ... finally: con.close(), in an operation
\* that has had outcome err: a failure of the validation that precedes
\* get_connection, or of get_connection, leaves no connection to close
ClosedInFinally(cs, op, err) ==
    IF err \in {"missing_columns", "connect_error"} THEN cs
    ELSE Close(Open(cs, op), op)

\* save_daily_market_snapshot has returned or raised with outcome r
SaveFinished(batch, replace, r) ==
    /\ store' = r.table
    /\ now' = now + 1
    /\ last' = [op |-> "save", loader |-> "none", replace |-> replace,
                ok |-> r.ok, err |-> r.err, n |-> 0, pre |-> store,
                written |-> NoWrites,
                touched |-> Keys(RowSet(batch.rows)), at |-> now,
                file |-> NoFile]
    /\ conn' = ClosedInFinally(conn, "save_daily_market_snapshot", r.err)
    /\ UNCHANGED <<columns, pc, txn, cur, arg, res>>

\* save_daily_market_snapshot(df, replace)
SaveDailyMarketSnapshot ==
    /\ pc = "idle"
    /\ now <= MaxClock
    /\ \E batch \in Batches, replace \in BOOLEAN :
          SaveFinished(batch, replace,
                       SaveResult(columns, store, batch, replace))

Next == LoadDaily \/ LoadHistory \/ SaveDailyMarketSnapshot

Spec == Init /\ [][Next]_vars

-----------------------------------------------------------------------------
(* The store machine with the other operations of the Store Adapter         *)
(* (qrp_atlas/pipeline/duckdb_store.py).  An operation is one step; err is  *)
(* how it ends: "none", the validation before get_connection raises         *)
(* ("missing_columns"), get_connection raises ("connect_error"), or a       *)
(* statement on the connection raises ("store_error").                      *)

\* init_db: con = get_connection(); init_database(con); con.close(), with
\* no try around init_database
ClosedAtEnd(cs, op, err) ==
    IF err = "connect_error" THEN cs
    ELSE IF err = "none" THEN Close(Open(cs, op), op)
    ELSE Open(cs, op)

\* the record of an operation of the adapter other than the save of
\* daily_market_snapshot
Called(op, err) ==
    [op |-> op, loader |-> "none", replace |-> FALSE, ok |-> err = "none",
     err |-> err, n |-> 0, pre |-> store, written |-> NoWrites, touched |-> {},
     at |-> now, file |-> NoFile]

\* an operation that leaves the tables of the model as they are has ended
\* with the connections cs open
AdapterCall(op, err, cs) ==
    /\ pc = "idle"
    /\ now <= MaxClock
    /\ last' = Called(op, err)
    /\ conn' = cs
    /\ now' = now + 1
    /\ UNCHANGED <<store, columns, pc, txn, cur, arg, res>>

StoreErrors == {"none", "connect_error", "store_error"}

InitDb ==
    \E err \in StoreErrors :
        AdapterCall("init_db", err, ClosedAtEnd(conn, "init_db", err))

SaveMarketPhase ==
    \E err \in StoreErrors \cup {"missing_columns"} :
        AdapterCall("save_market_phase", err,
                    ClosedInFinally(conn, "save_market_phase", err))

SaveTradeExecution ==
    \E err \in StoreErrors \cup {"missing_columns"} :
        AdapterCall("save_trade_execution", err,
                    ClosedInFinally(conn, "save_trade_execution", err))

GetDailyMarketSnapshot ==
    \E err \in StoreErrors :
        AdapterCall("get_daily_market_snapshot", err,
                    ClosedInFinally(conn, "get_daily_market_snapshot", err))

GetMarketPhase ==
    \E err \in StoreErrors :
        AdapterCall("get_market_phase", err,
                    ClosedInFinally(conn, "get_market_phase", err))

GetTradeExecution ==
    \E err \in StoreErrors :
        AdapterCall("get_trade_execution", err,
                    ClosedInFinally(conn, "get_trade_execution", err))

ListTables ==
    \E err \in StoreErrors :
        AdapterCall("list_tables", err, ClosedInFinally(conn, "list_tables", err))

GetTableInfo ==
    \E err \in StoreErrors :
        AdapterCall("get_table_info", err,
                    ClosedInFinally(conn, "get_table_info", err))

NextAdapter ==
    \/ Next
    \/ InitDb
    \/ SaveMarketPhase
    \/ SaveTradeExecution
    \/ GetDailyMarketSnapshot
    \/ GetMarketPhase
    \/ GetTradeExecution
    \/ ListTables
    \/ GetTableInfo

SpecAdapter == Init /\ [][NextAdapter]_vars

-----------------------------------------------------------------------------
(* Re-running a load: a table and a list of files that clean_file accepts   *)
(* are drawn, and load_files is called on the list again and again, each    *)
(* call one step (the call runs in one transaction).                        *)

\* the lists of files that clean_file accepts
ValidHistoryLists ==
    SeqsUpTo({f \in HistoryFiles : HistoryCleanFile(f).ok}, MaxFiles)
ValidDailyLists ==
    SeqsUpTo({f \in DailyFiles : DailyCleanFile(f).ok}, MaxFiles)
ValidLists(loader) ==
    IF loader = "daily" THEN ValidDailyLists ELSE ValidHistoryLists

\* the rows an earlier load (at time 0) can have stored
StoredRows ==
    UNION {{Stored(r, 0) : r \in RowSet(HistoryCleanFile(f).rows)} :
               f \in HistoryFiles}

\* tables of such rows, the key being unique
StoredTables ==
    {t \in SUBSET StoredRows :
        \A r1, r2 \in t : KeyOf(r1) = KeyOf(r2) => r1 = r2}

\* the table as init_database created it, holding rows or none, or as
\* scripts/init_db.py created it, where no load has yet added pre_close
\* and so none has stored a row
InitReload ==
    /\ columns \in {RegistryColumns, ScriptColumns}
    /\ store \in IF HistoryUpsertBinds(columns) THEN StoredTables ELSE {{}}
    /\ now = 1
    /\ pc = "idle"
    /\ txn = {}
    /\ cur = Idle
    /\ last = [op |-> "init"]
    /\ conn = {}
    /\ \E loader \in {"daily", "history"} : \E files \in ValidLists(loader) :
          arg = [fn |-> "load_files", loader |-> loader, files |-> files,
                 columns |-> columns, table |-> store]
    /\ res = [fn |-> "none", runs |-> 0, oks |-> 0, ok |-> FALSE, fault |-> 0]

\* load_files(files) has returned or raised with outcome r
LoadFilesReturns(faultAt, r) ==
    /\ store' = r.table
    /\ columns' = r.columns
    /\ now' = now + 1
    /\ res' = [fn |-> "load_files", runs |-> res.runs + 1,
               oks |-> IF r.ok THEN res.oks + 1 ELSE res.oks,
               ok |-> r.ok, fault |-> faultAt]
    /\ conn' = Close(Open(conn, arg.loader), arg.loader)
    /\ UNCHANGED <<pc, txn, cur, last, arg>>

\* load_files(arg.files) once more; faultAt is the file at which the store
\* fails (0: at none)
LoadFilesCall ==
    /\ res.runs < MaxRuns
    /\ \E faultAt \in 0..Len(arg.files) :
          LoadFilesReturns(faultAt,
              LoadFilesResult(arg.loader, columns, store, arg.files, now,
                              faultAt))

NextReload == LoadFilesCall

SpecReload == InitReload /\ [][NextReload]_vars

-----------------------------------------------------------------------------
(* The pure functions: an input file is drawn, and clean_file of either     *)
(* loader or the Conventions helpers are applied to it.                     *)

\* six-digit codes, one for every three-digit prefix
SweepCodes == {<<a, b, c, "0", "0", "1">> : a, b, c \in Digits}

\* codes that come with a suffix, and codes shorter than six digits
OddCodes ==
    {Append(Code600000, ".SH"), Append(Code600000, ".SZ"),
     Append(Code999999, ".SH"), Append(Code999999, ".BJ"),
     <<"1">>, <<"6", "0", "0">>, <<"9", "2", "0", "0", "1">>}

CleanNames == {NoName, "PINGAN BANK", "ST PINGAN"}

\* files of one record
CleanFiles ==
    {[name_date |-> 1, has_date_col |-> TRUE, has_name_col |-> TRUE,
      rows |-> <<[trade_date |-> 1, ticker |-> t, name |-> n,
                  close |-> Price11, pre_close |-> Price10]>>] :
         t \in SweepCodes \cup OddCodes, n \in CleanNames}

\* codes of a main board, of the two 20% boards and of the Beijing exchange
PriceCodes ==
    {<<"6", "0", "0", "0", "0", "1">>, <<"3", "0", "0", "0", "0", "1">>,
     <<"6", "8", "8", "0", "0", "1">>, <<"8", "3", "0", "0", "0", "1">>}

\* previous closes: 10.00, 10.05 (whose limit prices fall on half a cent),
\* and a cell that is not a number
PreCloses == {Price10, Price10 + 50, NotNumeric}

\* closes at, just around and well off the limit prices of 10.00: the
\* limit-up prices 10.50, 11.00, 12.00, 13.00 and the limit-down prices
\* 9.50, 9.00, 8.00, 7.00, each with the offsets -0.02, -0.002, -0.001, 0,
\* +0.001, +0.002, +0.02
ClosePrices ==
    {p + d : p \in {7000, 8000, 9000, 9500, 10500, 11000, 12000, 13000},
             d \in {-20, -2, -1, 0, 1, 2, 20}} \cup {NotNumeric}

\* files of one record whose prices vary
PriceFiles ==
    {[name_date |-> 1, has_date_col |-> TRUE, has_name_col |-> TRUE,
      rows |-> <<[trade_date |-> 1, ticker |-> t, name |-> n,
                  close |-> c, pre_close |-> p]>>] :
         t \in PriceCodes, n \in {"PINGAN BANK", "ST PINGAN"},
         c \in ClosePrices, p \in PreCloses}

\* one instrument written as "1", "000001" and "000001.SZ", and another
Code000001 == <<"0", "0", "0", "0", "0", "1">>
KeyCodes == {<<"1">>, Code000001, Append(Code000001, ".SZ"), Code600000}

KeyRows ==
    [trade_date : {NoDate, 1, 2}, ticker : KeyCodes, name : {NoName},
     close : {Price11}, pre_close : {Price10}]

\* files of several records, for the key checks of clean_file
KeyFiles ==
    {[name_date |-> d, has_date_col |-> TRUE, has_name_col |-> TRUE,
      rows |-> rs] :
         d \in {NoDate, 1}, rs \in SeqsUpTo(KeyRows, MaxCleanRows) \ {<<>>}}

\* files of one record whose prices are a few cents: previous closes 0.01,
\* 0.02, 0.03 and closes from 0.00 to 0.04
PennyFiles ==
    {[name_date |-> 1, has_date_col |-> TRUE, has_name_col |-> TRUE,
      rows |-> <<[trade_date |-> 1, ticker |-> t, name |-> n,
                  close |-> c, pre_close |-> p]>>] :
         t \in PriceCodes, n \in {"PINGAN BANK", "ST PINGAN"},
         c \in {0, 10, 20, 30, 40}, p \in {10, 20, 30}}

\* files of records that break more than one rule of clean_file: a code
\* that no prefix rule matches, a date that does not parse, a key twice
StepRows ==
    [trade_date : {NoDate, 1}, ticker : {Code999999, Code600000},
     name : {NoName}, close : {Price11}, pre_close : {Price10}]

StepFiles ==
    {[name_date |-> 1, has_date_col |-> TRUE, has_name_col |-> TRUE,
      rows |-> rs] : rs \in SeqsUpTo(StepRows, MaxCleanRows) \ {<<>>}}

InitClean ==
    /\ store = {}
    /\ columns = RegistryColumns
    /\ now = 1
    /\ pc = "idle"
    /\ txn = {}
    /\ cur = Idle
    /\ last = [op |-> "init"]
    /\ conn = {}
    /\ arg \in {[fn |-> "clean_file", file |-> f] :
                  f \in CleanFiles \cup PriceFiles \cup KeyFiles
                                 \cup StepFiles \cup PennyFiles}
    /\ res = NoArg

\* load_daily_snapshot.clean_file(arg.file); derived keeps the helper
\* columns that clean_file drops before it returns
CleanDaily ==
    /\ res = NoArg
    /\ res' = [fn |-> "daily_clean", out |-> DailyCleanFile(arg.file),
               cols |-> EXPECTED_COLUMNS,
               derived |-> [i \in 1..Len(arg.file.rows) |->
                               DailyDerive(arg.file, arg.file.rows[i])]]
    /\ UNCHANGED <<store, columns, now, pc, txn, cur, last, arg, conn>>

\* load_history_from_stock_csv.clean_file(arg.file)
CleanHistory ==
    /\ res = NoArg
    /\ res' = [fn |-> "history_clean", out |-> HistoryCleanFile(arg.file),
               cols |-> EXPECTED_COLUMNS,
               derived |-> [i \in 1..Len(arg.file.rows) |->
                               HistoryDerive(arg.file, arg.file.rows[i])]]
    /\ UNCHANGED <<store, columns, now, pc, txn, cur, last, arg, conn>>

\* get_exchange and calc_limit_up_pct for the instrument of one record
Conventions ==
    /\ res = NoArg
    /\ \E i \in 1..Len(arg.file.rows) :
          res' = [fn |-> "conventions", ticker |-> arg.file.rows[i].ticker,
                  is_st |-> ContainsST(NameAsStr(arg.file.rows[i].name)),
                  exchange |-> get_exchange(arg.file.rows[i].ticker),
                  limit_up_pct |->
                      calc_limit_up_pct(
                          ContainsST(NameAsStr(arg.file.rows[i].name)))]
    /\ UNCHANGED <<store, columns, now, pc, txn, cur, last, arg, conn>>

\* the keys of COLUMN_MAP of load_daily_snapshot: the headers the daily CSV
\* must have (the Chinese headers are written here in pinyin: daima is the
\* code, mingcheng the name, zuixinjia the latest price, zuoshou the
\* previous close, and so on)
COLUMN_MAP_KEYS ==
    {"trade_date", "daima", "mingcheng", "jinkai", "zuigao", "zuidi",
     "zuixinjia", "zhangdiefu", "chengjiaoliang", "chengjiaoe", "huanshoulv",
     "zongshizhi", "liutongshizhi", "zuoshou"}

\* SOURCE_REQUIRED_COLUMNS of load_history_from_stock_csv
SOURCE_REQUIRED_COLUMNS ==
    {"trade_date", "ticker", "open", "high", "low", "close", "pre_close",
     "pct_change", "volume", "amount", "turnover", "market_cap", "float_cap"}

\* a name cell written to CSV and read back: read_csv takes the text "nan",
\* like an empty cell, for a missing value
CsvName(name) == IF name = "nan" THEN NoName ELSE name

\* a cleaned row written to CSV and read back
CsvRow(r) ==
    [trade_date |-> r.trade_date, ticker |-> r.ticker, name |-> CsvName(r.name),
     close |-> r.close, pre_close |-> r.pre_close]

\* the cleaned batch written to a CSV file, its header being cols
CsvFile(name_date, rows) ==
    [name_date |-> name_date, has_date_col |-> TRUE, has_name_col |-> TRUE,
     rows |-> [i \in 1..Len(rows) |-> CsvRow(rows[i])]]

\* load_daily_snapshot.clean_file on a CSV with the header cols: the check
\* "missing = [k for k in COLUMN_MAP if k not in df.columns]" comes first
DailyCleanWritten(cols, name_date, rows) ==
    IF COLUMN_MAP_KEYS \ ColumnSet(cols) # {} THEN Failed("missing_columns")
    ELSE DailyCleanFile(CsvFile(name_date, rows))

\* load_history_from_stock_csv.clean_file on a CSV with the header cols:
\* validate_source_schema comes first
HistoryCleanWritten(cols, rows) ==
    IF SOURCE_REQUIRED_COLUMNS \ ColumnSet(cols) # {} THEN Failed("missing_columns")
    ELSE HistoryCleanFile(CsvFile(NoDate, rows))

\* clean_file of the same loader on the batch it returned
CleanAgain ==
    /\ res.fn \in {"daily_clean", "history_clean"}
    /\ res.out.ok
    /\ res' = [fn |-> IF res.fn = "daily_clean" THEN "daily_reclean"
                      ELSE "history_reclean",
               first |-> res.out,
               cols |-> EXPECTED_COLUMNS,
               out |-> IF res.fn = "daily_clean"
                       THEN DailyCleanWritten(res.cols, arg.file.name_date,
                                              res.out.rows)
                       ELSE HistoryCleanWritten(res.cols, res.out.rows),
               derived |-> <<>>]
    /\ UNCHANGED <<store, columns, now, pc, txn, cur, last, arg, conn>>

\* COLUMN_MAP of load_daily_snapshot, as the set of its (source header,
\* canonical column) pairs
COLUMN_MAP ==
    {<<"trade_date", "trade_date">>, <<"daima", "ticker">>,
     <<"mingcheng", "name">>, <<"jinkai", "open">>, <<"zuigao", "high">>,
     <<"zuidi", "low">>, <<"zuixinjia", "close">>,
     <<"zhangdiefu", "pct_change">>, <<"chengjiaoliang", "volume">>,
     <<"chengjiaoe", "amount">>, <<"huanshoulv", "turnover">>,
     <<"zongshizhi", "market_cap">>, <<"liutongshizhi", "float_cap">>,
     <<"zuoshou", "pre_close">>}

\* df.rename(columns=COLUMN_MAP): the pairs whose source header the
\* DataFrame has, the trade_date column inserted from the name included
RenamedPairs(header, name_date) ==
    {p \in COLUMN_MAP :
        \/ p[1] \in header
        \/ p[1] = "trade_date" /\ name_date # NoDate}

\* a check of the headers that does not look at the file's name
MissingFromHeaderAlone(header, name_date) == COLUMN_MAP_KEYS \ header

\* "missing" of load_daily_snapshot.clean_file for a CSV whose header is the
\* set header: a trade_date column is inserted first when the header has
\* none and the file's name carries a date
DailyMissingColumns(header, name_date) ==
    COLUMN_MAP_KEYS \
        (header \cup IF "trade_date" \notin header /\ name_date # NoDate
                     THEN {"trade_date"} ELSE {})

\* load_daily_snapshot.clean_file once missing is known
DailyCleanChecked(header, file, missing) ==
    IF file.rows = <<>> THEN Failed("empty")
    ELSE IF missing # {} THEN Failed("missing_columns")
    ELSE DailyCleanFile([file EXCEPT !.has_date_col = "trade_date" \in header,
                                     !.has_name_col = TRUE])

\* load_daily_snapshot.clean_file on a CSV with the header set header and
\* the name and rows of file
DailyCleanCsv(header, file) ==
    DailyCleanChecked(header, file,
                      DailyMissingColumns(header, file.name_date))

\* the headers of the daily CSVs: every header of COLUMN_MAP, less some of
\* trade_date, the code and the previous close, with or without one more
DailyHeaders ==
    {(COLUMN_MAP_KEYS \ m) \cup e :
        m \in SUBSET {"trade_date", "daima", "zuoshou"},
        e \in {{}, {"extra"}}}

\* load_daily_snapshot.clean_file on the rows of arg.file under a header
CleanDailyCsv ==
    /\ res = NoArg
    /\ \E header \in DailyHeaders :
          res' = [fn |-> "daily_clean_csv", header |-> header,
                  missing |-> DailyMissingColumns(header, arg.file.name_date),
                  out |-> DailyCleanCsv(header, arg.file),
                  renamed |-> RenamedPairs(header, arg.file.name_date),
                  cols |-> EXPECTED_COLUMNS, derived |-> <<>>]
    /\ UNCHANGED <<store, columns, now, pc, txn, cur, last, arg, conn>>

NextClean ==
    CleanDaily \/ CleanHistory \/ Conventions \/ CleanAgain \/ CleanDailyCsv

SpecClean == InitClean /\ [][NextClean]_vars

-----------------------------------------------------------------------------
(* The validator: qrp_atlas/contracts/validate.py                           *)
(*                                                                         *)
(* A DataFrame is [cols, row, log]: the set of its column names, one row   *)
(* as a function from column name to cell, and the conversions applied to  *)
(* it, in order.  A cell is [kind, v]: a text as read from a CSV, or what  *)
(* a conversion makes of it.                                               *)

\* MARKET_PHASE.column_names() and TRADE_EXECUTION.column_names()
MarketPhaseColumns ==
    <<"trade_date", "phase", "M1_core", "M2_front", "M3_identifiable",
      "V_triggered", "notes", "created_at">>
TradeExecutionColumns ==
    <<"trade_id", "ticker", "entry_date", "entry_price", "path_type",
      "half_sell_trigger", "half_sell_date", "half_sell_price", "exit_date",
      "exit_price", "position_pct", "notes">>

TABLE_BY_NAME ==
    [daily_market_snapshot |-> RegistryColumns,
     market_phase |-> MarketPhaseColumns,
     trade_execution |-> TradeExecutionColumns]

\* get_table(name).column_names(), as a set, for a registered table
get_table(name) == ColumnSet(TABLE_BY_NAME[name])

NUMERIC_COLUMNS ==
    {"open", "high", "low", "close", "volume", "amount", "pct_change",
     "turnover", "market_cap", "float_cap", "pre_close", "entry_price",
     "exit_price", "half_sell_price", "half_sell_trigger", "position_pct"}
BOOLEAN_COLUMNS ==
    {"is_st", "is_limit_up", "is_limit_down", "M1_core", "M2_front",
     "M3_identifiable", "V_triggered"}
DATE_COLUMNS == {"trade_date", "entry_date", "exit_date", "half_sell_date"}

\* the outcome of a call: the exception raised with what it carries, or
\* the value returned
Raised(exc, carried) == [raised |-> exc, carried |-> carried]
Returned(value) == [raised |-> "none", value |-> value]

\* a check_missing_columns that misses nothing
check_nothing_missing(cols, required) ==
    Returned([flag |-> FALSE, set |-> {}])

check_missing_columns(cols, required) ==
    IF required \ cols # {}
    THEN Raised("MissingColumnsError", required \ cols)
    ELSE Returned([flag |-> FALSE, set |-> {}])

check_extra_columns(cols, expected, strict) ==
    IF cols \ expected # {}
    THEN IF strict THEN Raised("ExtraColumnsError", cols \ expected)
         ELSE Returned([flag |-> TRUE, set |-> cols \ expected])
    ELSE Returned([flag |-> FALSE, set |-> {}])

\* validate_schema once check_missing_columns has passed
ValidateExtra(extra) ==
    IF extra.raised # "none" THEN extra
    ELSE Returned([ok |-> TRUE, missing |-> {}, extra |-> extra.value.set])

\* validate_schema once check_missing_columns has had outcome missing
ValidateAfterMissing(cols, required, allow_extra, missing) ==
    IF missing.raised # "none" THEN missing
    ELSE ValidateExtra(check_extra_columns(cols, required, ~allow_extra))

validate_schema(cols, table_name, allow_extra) ==
    ValidateAfterMissing(cols, get_table(table_name), allow_extra,
        check_missing_columns(cols, get_table(table_name)))

Text(v) == [kind |-> "text", v |-> v]

\* str(x) of a cell
PyStr(cell) == IF cell.kind = "NaN" THEN "nan" ELSE cell.v

\* the texts pd.to_numeric parses
NumericTexts == {"0", "1", "1.0"}

\* pd.to_numeric(errors="coerce") of one cell
to_numeric(cell) ==
    IF cell.kind = "num" THEN cell
    ELSE IF cell.kind = "text" /\ cell.v \in NumericTexts
        THEN [kind |-> "num", v |-> cell.v]
    ELSE [kind |-> "NaN", v |-> ""]

\* true_vals and false_vals of convert_boolean; "shi" and "fou" stand for
\* the Chinese words for yes and no
TRUE_VALUES == {"1", "true", "True", "TRUE", "yes", "Yes", "YES", "shi"}
FALSE_VALUES == {"0", "false", "False", "FALSE", "no", "No", "NO", "fou"}

\* a convert_boolean for which what is not true is false
to_boolean_or_false(cell) ==
    IF PyStr(cell) \in TRUE_VALUES THEN [kind |-> "bool", v |-> "True"]
    ELSE [kind |-> "bool", v |-> "False"]

\* the lambda of convert_boolean
to_boolean(cell) ==
    IF PyStr(cell) \in TRUE_VALUES THEN [kind |-> "bool", v |-> "True"]
    ELSE IF PyStr(cell) \in FALSE_VALUES THEN [kind |-> "bool", v |-> "False"]
    ELSE [kind |-> "NA", v |-> ""]

\* the texts pd.to_datetime parses
DateTexts == {"2024-01-02"}

\* pd.to_datetime(errors="coerce") of one cell
to_datetime(cell) ==
    IF cell.kind = "text" /\ cell.v \in DateTexts
    THEN [kind |-> "date", v |-> cell.v]
    ELSE [kind |-> "NaT", v |-> ""]

convert_numeric(df) ==
    [cols |-> df.cols,
     row |-> [c \in DOMAIN df.row |->
                 IF c \in NUMERIC_COLUMNS THEN to_numeric(df.row[c])
                 ELSE df.row[c]],
     log |-> Append(df.log, "convert_numeric")]

convert_boolean(df) ==
    [cols |-> df.cols,
     row |-> [c \in DOMAIN df.row |->
                 IF c \in BOOLEAN_COLUMNS THEN to_boolean(df.row[c])
                 ELSE df.row[c]],
     log |-> Append(df.log, "convert_boolean")]

convert_date(df) ==
    [cols |-> df.cols,
     row |-> [c \in DOMAIN df.row |->
                 IF c \in DATE_COLUMNS THEN to_datetime(df.row[c])
                 ELSE df.row[c]],
     log |-> Append(df.log, "convert_date")]

canonicalize(df) == convert_date(convert_boolean(convert_numeric(df)))

\* quick_validate once validate_schema has had outcome checked; df is the
\* DataFrame the caller has when the call ends
QuickValidateAfter(df, auto_convert, checked) ==
    IF checked.raised # "none"
    THEN [raised |-> checked.raised, carried |-> checked.carried, df |-> df]
    ELSE [raised |-> "none", carried |-> {},
          df |-> IF auto_convert THEN canonicalize(df) ELSE df]

quick_validate(df, table_name, allow_extra, auto_convert) ==
    QuickValidateAfter(df, auto_convert,
                       validate_schema(df.cols, table_name, allow_extra))

\* the column sets of the batches for a table: the schema's columns, less
\* some of its first and last, plus some that it does not have
BatchColumnSets(table_name) ==
    {(get_table(table_name) \ m) \cup e :
        m \in SUBSET {TABLE_BY_NAME[table_name][1],
                      TABLE_BY_NAME[table_name][Len(TABLE_BY_NAME[table_name])]},
        e \in SUBSET {"extra", "limit_pct"}}

\* the texts of the cells
CellTexts ==
    TRUE_VALUES \cup FALSE_VALUES \cup {"1.0", "tRUE", "Y", "abc", ""}
DateCellTexts == {"2024-01-02", "abc"}

\* a DataFrame of one row: the date columns hold the text d, the others t
OneRow(cols, t, d) ==
    [cols |-> cols,
     row |-> [c \in cols |-> IF c \in DATE_COLUMNS THEN Text(d) ELSE Text(t)],
     log |-> <<>>]

InitValidate ==
    /\ store = {}
    /\ columns = RegistryColumns
    /\ now = 1
    /\ pc = "idle"
    /\ txn = {}
    /\ cur = Idle
    /\ last = [op |-> "init"]
    /\ conn = {}
    /\ \E table_name \in DOMAIN TABLE_BY_NAME :
       \E cols \in BatchColumnSets(table_name) :
       \E t \in CellTexts, d \in DateCellTexts :
       \E allow_extra \in BOOLEAN, auto_convert \in BOOLEAN :
          arg = [fn |-> "validate", table |-> table_name,
                 df |-> OneRow(cols, t, d), allow_extra |-> allow_extra,
                 auto_convert |-> auto_convert]
    /\ res = NoArg

\* validate_schema(arg.df, arg.table, arg.allow_extra)
ValidateSchema ==
    /\ res = NoArg
    /\ res' = [fn |-> "validate_schema",
               out |-> validate_schema(arg.df.cols, arg.table, arg.allow_extra)]
    /\ UNCHANGED <<store, columns, now, pc, txn, cur, last, arg, conn>>

\* quick_validate(arg.df, arg.table, arg.allow_extra, arg.auto_convert)
QuickValidateCall ==
    /\ res = NoArg
    /\ res' = [fn |-> "quick_validate",
               out |-> quick_validate(arg.df, arg.table, arg.allow_extra,
                                      arg.auto_convert)]
    /\ UNCHANGED <<store, columns, now, pc, txn, cur, last, arg, conn>>

NextValidate == ValidateSchema \/ QuickValidateCall

SpecValidate == InitValidate /\ [][NextValidate]_vars

-----------------------------------------------------------------------------
(* Properties of the store machine (specification Spec)                     *)

Loaders == {"daily", "history"}

AtRest == pc = "idle"

LoadCommitted == AtRest /\ last.op = "load" /\ last.ok
LoadRolledBack == AtRest /\ last.op = "load" /\ ~last.ok
SaveReplaced == AtRest /\ last.op = "save" /\ last.replace /\ last.ok

RowOf(table, k) == CHOOSE t \in table : KeyOf(t) = k

\* the canonical columns of the stored rows: everything but created_at
CanonicalRows(table) == {[key |-> KeyOf(t), cols |-> Payload(t)] : t \in table}

UniqueKeys(table) ==
    \A t1, t2 \in table : KeyOf(t1) = KeyOf(t2) => t1 = t2

\* C1: whatever loads (committed or rolled back) and saves have run, the
\* table never holds two rows with the same (trade_date, ticker), neither
\* as committed nor as seen inside the open transaction of a load.
C1_PrimaryKeyUnique == UniqueKeys(store) /\ UniqueKeys(txn)

\* a committed load has written a key that was already stored
C1_Witness ==
    /\ LoadCommitted
    /\ last.touched \cap Keys(last.pre) # {}
    /\ Cardinality(store) = Cardinality(last.pre)

\* C2: a load that fails in clean_file or in the upsert of any file leaves
\* the store exactly as it was before load_files was called, the files
\* upserted before the failure included.
C2_LoadAllOrNothing == LoadRolledBack => store = last.pre

\* a load failed after an earlier file of the list had been upserted with a
\* key the store did not have
C2_Witness ==
    /\ LoadRolledBack
    /\ last.n >= 1
    /\ last.touched \ Keys(last.pre) # {}
    /\ store = last.pre

SameKeysAndValues(t1, t2) ==
    /\ Keys(t1) = Keys(t2)
    /\ CanonicalRows(t1) = CanonicalRows(t2)
    /\ Cardinality(t1) = Cardinality(t2)

\* what one successful load_files of the list leaves from the table drawn
OnceFromStart ==
    LoadFilesResult(arg.loader, arg.columns, arg.table, arg.files, 1, 0)

\* C3: for every table and every list of valid files, once load_files has
\* succeeded on the list, the store has the keys and canonical column
\* values that one successful run from the table leaves, however many
\* times the list is run again and whether or not a run before or after
\* failed and rolled back; and a run after a successful one fails only if
\* the store fails it.
C3_ReloadIdempotent ==
    res.oks >= 1 =>
        /\ SameKeysAndValues(store, OnceFromStart.table)
        /\ res.fault = 0 => res.ok

\* the list has been loaded twice with a failed run besides, it has more
\* than one file, and the store is not what it was at the start
C3_Witness ==
    /\ res.oks >= 2
    /\ res.runs > res.oks
    /\ Len(arg.files) >= 2
    /\ arg.table # {}
    /\ CanonicalRows(store) # CanonicalRows(arg.table)

\* the save `once` succeeded, and so did the save `twice` after it, with
\* the rows, as many and the same, that `once` left
SecondSaveSame(once, twice) ==
    /\ twice.ok
    /\ twice.table = once.table
    /\ Cardinality(twice.table) = Cardinality(once.table)

SaveAgain(batch, once) ==
    once.ok => SecondSaveSame(once, SaveResult(columns, once.table, batch, TRUE))

\* C4: from every store state and for every batch, a save with
\* replace=true that succeeds can be repeated with the same batch: the
\* second save succeeds and the table has the rows, as many and the same,
\* that it had after the first.
C4_SaveTwiceIsSaveOnce ==
    \A batch \in Batches :
        SaveAgain(batch, SaveResult(columns, store, batch, TRUE))

\* a save with replace=true succeeded on a batch all of whose keys were
\* stored, and left the table with the rows it had
C4_Witness ==
    /\ SaveReplaced
    /\ last.touched # {}
    /\ last.touched \subseteq Keys(last.pre)
    /\ store = last.pre

\* C5 (as the code has it): after a committed load every key written by
\* the load is stored once, each column of the SET list (every non-key
\* column but created_at) has the value of the incoming row, nulls
\* included, the row being that of the last file of the list that has the
\* key; created_at is the one column kept from the previous row, and is
\* the time of the load for a key that is new.
C5_UpsertOverwritesSetColumns ==
    LoadCommitted =>
        \A k \in last.touched :
            /\ Cardinality({t \in store : KeyOf(t) = k}) = 1
            /\ Payload(RowOf(store, k)) = Payload(last.written[k])
            /\ RowOf(store, k).created_at =
                   IF k \in Keys(last.pre)
                   THEN RowOf(last.pre, k).created_at
                   ELSE DefaultCreatedAt(columns, last.at)

\* a load of two files with the same key overwrote a stored close with the
\* null of its last file, and the stored created_at is older than the load
C5_Witness ==
    /\ LoadCommitted
    /\ last.n = 2
    /\ \E k \in last.touched \cap Keys(last.pre) :
          /\ last.touched = {k}
          /\ RowOf(last.pre, k).close = Price11
          /\ RowOf(store, k).close = Null
          /\ RowOf(store, k).created_at < last.at

\* C5 as stated: the stored row is the incoming row and nothing of the
\* previous row survives, so created_at too is that of the load.
C5_WholeRowReplaced ==
    LoadCommitted =>
        \A k \in last.touched :
            RowOf(store, k) =
                Stored(last.written[k], DefaultCreatedAt(columns, last.at))

\* C6 as stated: a save with replace=true of a batch that passed
\* quick_validate never fails with a primary-key violation.
C6_ReplaceNeverViolatesKey ==
    (AtRest /\ last.op = "save" /\ last.replace) => last.err # "pk_violation"

\* C7: a committed load, or a successful save with replace=true, leaves
\* every stored row whose key is not in the incoming data as it was, and
\* every key stored before is stored after.
C7_SupersededNeverDeleted ==
    (LoadCommitted \/ SaveReplaced) =>
        /\ \A t \in last.pre : KeyOf(t) \notin last.touched => t \in store
        /\ Keys(last.pre) \subseteq Keys(store)

\* a save with replace=true replaced one stored row and left another row of
\* the same trade_date alone
C7_Witness ==
    /\ SaveReplaced
    /\ \E t1, t2 \in last.pre :
          /\ KeyOf(t1) \in last.touched
          /\ KeyOf(t2) \notin last.touched
          /\ t1.trade_date = t2.trade_date
          /\ t1 \notin store
          /\ t2 \in store

\* C8 as stated: every ticker committed by a loader is six digits and a
\* suffix, the suffix being the one the loader's prefix rules give the six
\* digits.
C8_CommittedTickersClassified ==
    LoadCommitted =>
        \A k \in last.touched :
            /\ HistoryTickerValid(k[2])
            /\ k[2] = (IF last.loader = "daily"
                       THEN DailyNormalizeTicker(SubSeq(k[2], 1, 6))
                       ELSE HistoryNormalizeTicker(SubSeq(k[2], 1, 6)))

\* the name of the file encodes a date and some row has another date
DateInconsistent(name_date, dates) ==
    /\ name_date # NoDate
    /\ dates \ {NoDate, name_date} # {}

\* the file passes every check that clean_file makes before
\* validate_trade_date: under a name without a date it is accepted
AcceptedButForName(file) ==
    DailyCleanFile([file EXCEPT !.name_date = NoDate]).ok

DateConsistencyErrors == {"multiple_trade_dates", "trade_date_mismatch"}

\* clean_file rejects the file with the date-consistency error, or with
\* the error of a check it makes before validate_trade_date
RejectedForDates(file) ==
    /\ ~DailyCleanFile(file).ok
    /\ AcceptedButForName(file) =>
           DailyCleanFile(file).err \in DateConsistencyErrors

C18_FailureDiscardsSiblings ==
    LoadRolledBack =>
        \A k \in last.touched :
            IF k \in Keys(last.pre)
            THEN RowOf(store, k) = RowOf(last.pre, k)
            ELSE k \notin Keys(store)

\* a load upserted one file with a key the store did not have, failed at
\* the next in clean_file, and the key is not stored
C18_Witness ==
    /\ LoadRolledBack
    /\ last.n = 1
    /\ last.err \notin {"store_error", "binder_error"}
    /\ \E k \in last.touched : k \notin Keys(last.pre) /\ k \notin Keys(store)

\* C18 as stated: the rows of the valid files of a load in which another
\* file failed are persisted.
C18_SiblingsPersisted ==
    LoadRolledBack =>
        \A k \in last.touched :
            /\ k \in Keys(store)
            /\ Payload(RowOf(store, k)) = Payload(last.written[k])

\* C17 as stated: whenever no operation is running, no connection is
\* open: every operation of the Store Adapter and every multi-file load
\* has closed the connection it opened, however it ended.
C17_ConnectionsClosed == AtRest => conn = {}

-----------------------------------------------------------------------------
(* Properties of the pure functions (specification SpecClean)               *)

CleanFileApplied == res.fn \in {"daily_clean", "history_clean"}

\* the file cleaned has one record, whose raw code is six digits
SixDigitCode ==
    /\ Len(arg.file.rows) = 1
    /\ arg.file.rows[1].ticker \in SweepCodes

SuffixOf(exchange) ==
    CASE exchange = "SH" -> ".SH" [] exchange = "SZ" -> ".SZ"
      [] exchange = "BJ" -> ".BJ" [] OTHER -> ""

\* C9 as stated: clean_file of a loader rejects the record of a six-digit
\* code exactly when get_exchange classifies the code as UNKNOWN, and
\* otherwise gives it the suffix of the exchange get_exchange returns.
C9_LoadersAgreeWithGetExchange ==
    (CleanFileApplied /\ SixDigitCode) =>
        /\ res.out.ok <=> get_exchange(arg.file.rows[1].ticker) # "UNKNOWN"
        /\ res.out.ok =>
              res.out.rows[1].ticker =
                  Append(arg.file.rows[1].ticker,
                         SuffixOf(get_exchange(arg.file.rows[1].ticker)))

\* the board of a six-digit code, by the prefix tables of clean_file
BoardOf(code) ==
    IF StartsWithAny(code, MainBoardPrefixes) THEN "main"
    ELSE IF StartsWithAny(code, BjPrefixes) THEN "beijing"
    ELSE IF StartsWithAny(code, Chi20History) THEN "growth"
    ELSE "other"

StatedLimitPct(board, is_st) ==
    IF board = "main" /\ is_st THEN 5
    ELSE IF board = "growth" THEN 20
    ELSE IF board = "beijing" THEN 30
    ELSE 10

\* C10 as stated: the limit percentage is 5 only for a special-treatment
\* instrument of a main board, 20 or 30 on the higher-volatility boards
\* whatever the flag, 10 otherwise; in limit_pct of clean_file of both
\* loaders and in calc_limit_up_pct.
C10_LimitPctByBoard ==
    /\ (CleanFileApplied /\ res.out.ok) =>
          \A i \in 1..Len(res.derived) :
              res.derived[i].limit_pct =
                  StatedLimitPct(BoardOf(res.derived[i].ticker),
                                 res.derived[i].is_st)
    /\ (res.fn = "conventions" /\ SixDigitCode) =>
          res.limit_up_pct = StatedLimitPct(BoardOf(res.ticker), res.is_st)

\* C11 as stated: a close equal to limit_up_price, and a close 0.002 above
\* it, give is_limit_up = true; a close 0.02 above it gives false.
C11_LimitUpBoundary ==
    CleanFileApplied =>
        \A i \in 1..Len(res.derived) :
            (res.derived[i].close # Null /\ res.derived[i].limit_up_price # Null) =>
                /\ res.derived[i].close = res.derived[i].limit_up_price
                       => res.derived[i].is_limit_up
                /\ res.derived[i].close = res.derived[i].limit_up_price + 2
                       => res.derived[i].is_limit_up
                /\ res.derived[i].close = res.derived[i].limit_up_price + 20
                       => ~res.derived[i].is_limit_up

\* p, in thousandths, is v (in units of 1/100000) rounded to two decimals:
\* a whole number of cents and the nearest one
NearestCent(p, v) ==
    /\ p % 10 = 0
    /\ 100 * p - v <= 500
    /\ v - 100 * p <= 500

\* the limit prices and flags of one derived record are those stated
LimitsAsStated(d) ==
    /\ NearestCent(d.limit_up_price, d.pre_close * (100 + d.limit_pct))
    /\ NearestCent(d.limit_down_price, d.pre_close * (100 - d.limit_pct))
    /\ d.is_limit_up <=> d.close >= d.limit_up_price - 1
    /\ d.is_limit_down <=> d.close <= d.limit_down_price + 1

\* the scenario: previous close 10.00 at 10% has limit-up price 11.00, which
\* a close of 11.00 hits and a close of 10.98 does not
ScenarioAsStated(d) ==
    (d.pre_close = Price10 /\ d.limit_pct = 10) =>
        /\ d.limit_up_price = Price11
        /\ d.close = Price11 => d.is_limit_up
        /\ d.close = Price11 - 20 => ~d.is_limit_up

\* C12: for every record with a numeric pre_close and close, both loaders
\* compute limit_up_price and limit_down_price as pre_close * (1 +/-
\* limit_pct/100) rounded to two decimals, set is_limit_up exactly when
\* close >= limit_up_price - 0.001 and is_limit_down exactly when close <=
\* limit_down_price + 0.001; pre_close 10.00 at 10% gives 11.00, which a
\* close of 11.00 hits and a close of 10.98 does not.
C12_LimitPricesAndFlags ==
    CleanFileApplied =>
        \A i \in 1..Len(res.derived) :
            (res.derived[i].pre_close # Null /\ res.derived[i].close # Null) =>
                /\ LimitsAsStated(res.derived[i])
                /\ ScenarioAsStated(res.derived[i])

\* the history loader cleaned a record of a main board without special
\* treatment, previous close 10.00 and close 10.999: the limit-up price is
\* 11.00 and the flag is set by the tolerance alone
C12_Witness ==
    /\ res.fn = "history_clean"
    /\ res.out.ok
    /\ res.derived[1].ticker = <<"6", "0", "0", "0", "0", "1", ".SH">>
    /\ ~res.derived[1].is_st
    /\ res.derived[1].pre_close = Price10
    /\ res.derived[1].close = Price11 - 1
    /\ res.derived[1].limit_up_price = Price11
    /\ res.out.rows[1].is_limit_up
    /\ ~res.out.rows[1].is_limit_down

\* two records of the file cleaned have the same parsed trade_date and the
\* same normalized ticker
SameKeyTwice ==
    \E i, j \in 1..Len(res.derived) :
        /\ i < j
        /\ res.derived[i].trade_date = res.derived[j].trade_date
        /\ res.derived[i].ticker = res.derived[j].ticker

AllDatesParsed ==
    \A i \in 1..Len(res.derived) : res.derived[i].trade_date # NoDate

\* C13: clean_file of either loader never returns a batch for a file in
\* which two records have the same (parsed trade_date, normalized ticker):
\* once every date of the file has parsed it fails with the duplicate-key
\* error, before the ticker and date checks; and a batch it returns has as
\* many rows as the file.
C13_NeverDeduplicates ==
    CleanFileApplied =>
        /\ SameKeyTwice => ~res.out.ok
        /\ (SameKeyTwice /\ AllDatesParsed) => res.out.err = "duplicate_pk"
        /\ res.out.ok => Len(res.out.rows) = Len(arg.file.rows)

\* the daily loader read "1" and "000001" in one file, both on the same
\* date, and failed with the duplicate-key error
C13_Witness ==
    /\ res.fn = "daily_clean"
    /\ Len(arg.file.rows) = 2
    /\ arg.file.rows[1].ticker = <<"1">>
    /\ arg.file.rows[2].ticker = Code000001
    /\ SameKeyTwice
    /\ AllDatesParsed
    /\ res.out.err = "duplicate_pk"

\* C15 as stated: clean_file of either loader, applied to the batch it
\* returned, succeeds and returns that batch.
C15_CleanIdempotent ==
    res.fn \in {"daily_reclean", "history_reclean"} =>
        /\ res.out.ok
        /\ res.out.rows = res.first.rows

\* C16 as stated: the columns of the batch clean_file returns are, in
\* order, the registry's columns of daily_market_snapshot, the batch lacks
\* no column validate_schema asks for, and the CREATE TABLE of
\* scripts/init_db.py has the registry's columns.
C16_BatchConformsToRegistry ==
    (CleanFileApplied /\ res.out.ok) =>
        /\ res.cols = RegistryColumns
        /\ MissingColumns([cols |-> res.cols]) = {}
        /\ ScriptColumns = RegistryColumns

-----------------------------------------------------------------------------
(* Properties of the validator (specification SpecValidate)                 *)

SchemaMinusBatch == get_table(arg.table) \ arg.df.cols
BatchMinusSchema == arg.df.cols \ get_table(arg.table)

\* C19: validate_schema raises MissingColumnsError exactly when the batch
\* lacks a column of the schema, carrying the columns it lacks, whatever
\* columns the batch has besides; when it lacks none and allow_extra is
\* false and the batch has a column the schema has not, it raises
\* ExtraColumnsError carrying those columns; otherwise it returns (True,
\* empty set, the columns the batch has besides the schema's).
C19_ValidateSchema ==
    res.fn = "validate_schema" =>
        /\ res.out.raised = "MissingColumnsError" <=> SchemaMinusBatch # {}
        /\ res.out.raised = "MissingColumnsError" =>
               res.out.carried = SchemaMinusBatch
        /\ SchemaMinusBatch = {} =>
               IF ~arg.allow_extra /\ BatchMinusSchema # {}
               THEN /\ res.out.raised = "ExtraColumnsError"
                    /\ res.out.carried = BatchMinusSchema
               ELSE /\ res.out.raised = "none"
                    /\ res.out.value =
                           [ok |-> TRUE, missing |-> {}, extra |-> BatchMinusSchema]

\* a batch that lacks two columns of its table and has two columns besides
\* was checked with allow_extra=false: the missing columns are reported
C19_Witness ==
    /\ res.fn = "validate_schema"
    /\ ~arg.allow_extra
    /\ Cardinality(BatchMinusSchema) = 2
    /\ Cardinality(SchemaMinusBatch) = 2
    /\ res.out.raised = "MissingColumnsError"
    /\ res.out.carried = SchemaMinusBatch

\* what the three coercions are stated to make of the cell of column c
StatedCell(c, cell) ==
    IF c \in NUMERIC_COLUMNS
    THEN IF cell.v \in NumericTexts THEN [kind |-> "num", v |-> cell.v]
         ELSE [kind |-> "NaN", v |-> ""]
    ELSE IF c \in BOOLEAN_COLUMNS
    THEN IF cell.v \in {"1", "true", "True", "TRUE", "yes", "Yes", "YES", "shi"}
         THEN [kind |-> "bool", v |-> "True"]
         ELSE IF cell.v \in {"0", "false", "False", "FALSE", "no", "No", "NO", "fou"}
         THEN [kind |-> "bool", v |-> "False"]
         ELSE [kind |-> "NA", v |-> ""]
    ELSE IF c \in DATE_COLUMNS
    THEN IF cell.v \in DateTexts THEN [kind |-> "date", v |-> cell.v]
         ELSE [kind |-> "NaT", v |-> ""]
    ELSE cell

\* C20: quick_validate leaves the batch as it is, no conversion applied,
\* when validate_schema raises and when auto_convert is false; otherwise
\* it applies convert_numeric, convert_boolean and convert_date, in that
\* order, no column is of two of the three kinds, and each cell is what
\* the one conversion of its column makes of it: for a boolean column,
\* true for 1/true/yes/shi, false for 0/false/no/fou (in the casings
\* lower, Capitalized and UPPER), null for every other value.
C20_QuickValidateOrder ==
    res.fn = "quick_validate" =>
        /\ res.out.raised # "none" <=>
               validate_schema(arg.df.cols, arg.table, arg.allow_extra).raised # "none"
        /\ (res.out.raised # "none" \/ ~arg.auto_convert) => res.out.df = arg.df
        /\ (res.out.raised = "none" /\ arg.auto_convert) =>
               /\ res.out.df.log =
                      <<"convert_numeric", "convert_boolean", "convert_date">>
               /\ NUMERIC_COLUMNS \cap BOOLEAN_COLUMNS = {}
               /\ NUMERIC_COLUMNS \cap DATE_COLUMNS = {}
               /\ BOOLEAN_COLUMNS \cap DATE_COLUMNS = {}
               /\ \A c \in arg.df.cols :
                      res.out.df.row[c] = StatedCell(c, arg.df.row[c])

\* a batch of daily_market_snapshot whose cells read "TRUE" was converted:
\* not a number in close, true in is_st, and the date parsed
C20_Witness ==
    /\ res.fn = "quick_validate"
    /\ arg.table = "daily_market_snapshot"
    /\ arg.auto_convert
    /\ res.out.raised = "none"
    /\ arg.df.row["is_st"] = Text("TRUE")
    /\ res.out.df.row["close"].kind = "NaN"
    /\ res.out.df.row["is_st"] = [kind |-> "bool", v |-> "True"]
    /\ res.out.df.row["trade_date"].kind = "date"
    /\ res.out.df.row["ticker"] = Text("TRUE")


-----------------------------------------------------------------------------
(* The read accessors of the Store Adapter: the three tables are drawn,     *)
(* one of them holding rows, and an accessor is called on them.  A          *)
(* market_phase row is [trade_date, phase], a trade_execution row           *)
(* [trade_id, ticker, entry_date].                                          *)

MaxStored == 3      \* rows of the table an accessor reads

ReadDates == 1..3
ReadTickers == {Append(Code000001, ".SZ"), Append(Code600000, ".SH")}

SnapshotRows ==
    [trade_date : ReadDates, ticker : ReadTickers, name : {NoName},
     close : {Price11}, pre_close : {Price10}, is_st : {FALSE},
     is_limit_up : {FALSE}, is_limit_down : {FALSE}, created_at : {NoDate}]
PhaseRows == [trade_date : ReadDates, phase : {"up"}]
TradeRows == [trade_id : {"T1", "T2"}, ticker : ReadTickers, entry_date : 1..2]

SnapshotTables ==
    {t \in SUBSET SnapshotRows :
        /\ Cardinality(t) <= MaxStored
        /\ \A r1, r2 \in t : KeyOf(r1) = KeyOf(r2) => r1 = r2}
PhaseTables ==
    {t \in SUBSET PhaseRows :
        /\ Cardinality(t) <= MaxStored
        /\ \A r1, r2 \in t : r1.trade_date = r2.trade_date => r1 = r2}
TradeTables ==
    {t \in SUBSET TradeRows :
        /\ Cardinality(t) <= MaxStored
        /\ \A r1, r2 \in t : r1.trade_id = r2.trade_id => r1 = r2}

\* "if trade_date:" and its like: None and the empty string add no
\* condition.  NoDate stands for an absent date, the empty sequence for an
\* absent ticker, "" for an absent trade_id.

\* the WHERE clause get_daily_market_snapshot builds
SnapshotWhere(table, trade_date, ticker, start_date, end_date) ==
    {t \in table :
        /\ trade_date # NoDate => t.trade_date = trade_date
        /\ ticker # <<>> => t.ticker = ticker
        /\ start_date # NoDate => t.trade_date >= start_date
        /\ end_date # NoDate => t.trade_date <= end_date}

\* the WHERE clause get_market_phase builds
PhaseWhere(table, trade_date, start_date, end_date) ==
    {t \in table :
        /\ trade_date # NoDate => t.trade_date = trade_date
        /\ start_date # NoDate => t.trade_date >= start_date
        /\ end_date # NoDate => t.trade_date <= end_date}

\* the ORDER BY clause of a query puts row a ahead of row b; "" is a query
\* without the clause
Before(order_by, a, b) ==
    CASE order_by = "trade_date, ticker" -> KeyLess(a, b)
      [] order_by = "trade_date" -> a.trade_date < b.trade_date
      [] order_by = "entry_date" -> a.entry_date < b.entry_date
      [] OTHER -> FALSE

\* the results a SELECT can return for the selected rows: each row once,
\* no row before one that the ORDER BY puts ahead of it; rows that the
\* ORDER BY does not tell apart come in any order
OrderBy(rows, order_by) ==
    {s \in [1..Cardinality(rows) -> rows] :
        \A i, j \in 1..Cardinality(rows) :
            i < j => s[i] # s[j] /\ ~Before(order_by, s[j], s[i])}

\* the results of get_trade_execution(trade_id)
TradeExecutionResults(table, trade_id) ==
    IF trade_id # ""
    THEN OrderBy({t \in table : t.trade_id = trade_id}, "")
    ELSE OrderBy(table, "entry_date")

InitRead ==
    /\ columns = RegistryColumns
    /\ now = 1
    /\ pc = "idle"
    /\ txn = {}
    /\ cur = Idle
    /\ last = [op |-> "init"]
    /\ conn = {}
    /\ \E s \in SnapshotTables, p \in PhaseTables, t \in TradeTables :
          /\ Cardinality({x \in {s, p, t} : x # {}}) <= 1
          /\ store = s
          /\ arg = [fn |-> "read", daily_market_snapshot |-> s,
                    market_phase |-> p, trade_execution |-> t]
    /\ res = NoArg

\* an accessor has returned rows: the connection it opened read-only is
\* closed in its finally clause, and no table is written
Fetched(op, filters, rows) ==
    /\ res' = [fn |-> op, filters |-> filters, rows |-> rows]
    /\ conn' = ClosedInFinally(conn, op, "none")
    /\ UNCHANGED <<store, columns, now, pc, txn, cur, last, arg>>

\* get_daily_market_snapshot(trade_date, ticker, start_date, end_date)
GetDailyMarketSnapshotRows ==
    /\ res = NoArg
    /\ \E trade_date, start_date, end_date \in ReadDates \cup {NoDate} :
       \E ticker \in ReadTickers \cup {<<>>} :
       \E rows \in OrderBy(SnapshotWhere(store, trade_date, ticker,
                                         start_date, end_date),
                           "trade_date, ticker") :
          Fetched("get_daily_market_snapshot",
                  [trade_date |-> trade_date, ticker |-> ticker,
                   start_date |-> start_date, end_date |-> end_date], rows)

\* get_market_phase(trade_date, start_date, end_date)
GetMarketPhaseRows ==
    /\ res = NoArg
    /\ \E trade_date, start_date, end_date \in ReadDates \cup {NoDate} :
       \E rows \in OrderBy(PhaseWhere(arg.market_phase, trade_date,
                                      start_date, end_date), "trade_date") :
          Fetched("get_market_phase",
                  [trade_date |-> trade_date, start_date |-> start_date,
                   end_date |-> end_date], rows)

\* get_trade_execution(trade_id)
GetTradeExecutionRows ==
    /\ res = NoArg
    /\ \E trade_id \in {"", "T1", "T2"} :
       \E rows \in TradeExecutionResults(arg.trade_execution, trade_id) :
          Fetched("get_trade_execution", [trade_id |-> trade_id], rows)

NextRead ==
    GetDailyMarketSnapshotRows \/ GetMarketPhaseRows \/ GetTradeExecutionRows

SpecRead == InitRead /\ [][NextRead]_vars

-----------------------------------------------------------------------------
(* Properties of the read accessors (specification SpecRead)                *)

\* the rows of the stored snapshot that satisfy every filter that was
\* supplied, both ends of the range included
StatedSelection ==
    {t \in arg.daily_market_snapshot :
        /\ res.filters.trade_date # NoDate
              => t.trade_date = res.filters.trade_date
        /\ res.filters.ticker # <<>> => t.ticker = res.filters.ticker
        /\ res.filters.start_date # NoDate
              => t.trade_date >= res.filters.start_date
        /\ res.filters.end_date # NoDate
              => t.trade_date <= res.filters.end_date}

\* the rows returned are exactly those of the set, each once, ascending by
\* (trade_date, ticker)
ReturnedAscending(rows, selection) ==
    /\ RowSet(rows) = selection
    /\ Len(rows) = Cardinality(selection)
    /\ \A i, j \in 1..Len(rows) : i < j => KeyLess(rows[i], rows[j])

\* the snapshot accessor alone: exactly the selection, ascending by
\* (trade_date, ticker), the store left as it was
SnapshotReadAsStated ==
    res.fn = "get_daily_market_snapshot" =>
        /\ ReturnedAscending(res.rows, StatedSelection)
        /\ store = arg.daily_market_snapshot

\* C21 as stated: get_daily_market_snapshot returns exactly the stored rows
\* that satisfy every supplied filter, ascending by (trade_date, ticker),
\* and leaves the store unchanged; and the rows every read accessor returns
\* are in ascending (date, instrument) order: never a row after one with a
\* later date, or with the same date and a later instrument.
C21_ReadsFilteredAndOrdered ==
    /\ SnapshotReadAsStated
    /\ res.fn = "get_market_phase" =>
          \A i, j \in 1..Len(res.rows) :
              i < j => res.rows[i].trade_date <= res.rows[j].trade_date
    /\ res.fn = "get_trade_execution" =>
          \A i, j \in 1..Len(res.rows) :
              i < j =>
                 /\ res.rows[i].entry_date <= res.rows[j].entry_date
                 /\ res.rows[i].entry_date = res.rows[j].entry_date
                       => ~StrLess(res.rows[j].ticker, res.rows[i].ticker)



-----------------------------------------------------------------------------
(* Field mappings: qrp_atlas/contracts/mappings.py                          *)
(*                                                                         *)
(* A mapping is the set of its (source column, canonical column) pairs.    *)
(* The Chinese headers are written in pinyin: daima is the code, riqi the  *)
(* date, gupiaomingcheng the stock name, kaipan the open, shoupan the      *)
(* close, and so on.  A DataFrame is the sequence of its columns, each     *)
(* [label, data]: the column's name and (an identifier of) its cells.      *)

MaxColumns == 3     \* columns of a DataFrame handed to apply_mapping

EASTMONEY_DAILY_BAR ==
    {<<"daima", "ticker">>, <<"riqi", "trade_date">>,
     <<"gupiaomingcheng", "name">>, <<"kaipan", "open">>,
     <<"zuigao", "high">>, <<"zuidi", "low">>, <<"shoupan", "close">>,
     <<"chengjiaoliang", "volume">>, <<"chengjiaoe", "amount">>,
     <<"zhangdiefu", "pct_change">>, <<"huanshoulv", "turnover">>}

EASTMONEY_SNAPSHOT ==
    {<<"daima", "ticker">>, <<"gupiaomingcheng", "name">>,
     <<"zuixinjia", "close">>, <<"zhangdiefu", "pct_change">>,
     <<"chengjiaoliang", "volume">>, <<"chengjiaoe", "amount">>,
     <<"huanshoulv", "turnover">>, <<"zongshizhi", "market_cap">>,
     <<"liutongshizhi", "float_cap">>, <<"jinkai", "open">>,
     <<"zuigao", "high">>, <<"zuidi", "low">>}

AKSHARE_DAILY_BAR ==
    {<<"daima", "ticker">>, <<"riqi", "trade_date">>, <<"kaipan", "open">>,
     <<"zuigao", "high">>, <<"zuidi", "low">>, <<"shoupan", "close">>,
     <<"chengjiaoliang", "volume">>, <<"chengjiaoe", "amount">>,
     <<"zhangdiefu", "pct_change">>, <<"huanshoulv", "turnover">>}

AKSHARE_REALTIME ==
    {<<"daima", "ticker">>, <<"mingcheng", "name">>,
     <<"zuixinjia", "close">>, <<"zhangdiefu", "pct_change">>,
     <<"chengjiaoliang", "volume">>, <<"chengjiaoe", "amount">>,
     <<"huanshoulv", "turnover">>, <<"zongshizhi", "market_cap">>,
     <<"liutongshizhi", "float_cap">>}

SOURCE_MAPPINGS ==
    [eastmoney_daily_bar |-> EASTMONEY_DAILY_BAR,
     eastmoney_snapshot |-> EASTMONEY_SNAPSHOT,
     akshare_daily_bar |-> AKSHARE_DAILY_BAR,
     akshare_realtime |-> AKSHARE_REALTIME]

\* the keys and the values of a dict, and dict[k]
MappingKeys(m) == {p[1] : p \in m}
MappingValues(m) == {p[2] : p \in m}
Lookup(m, k) == (CHOOSE p \in m : p[1] = k)[2]

get_mapping(source) ==
    IF source \notin DOMAIN SOURCE_MAPPINGS THEN Raised("ValueError", source)
    ELSE Returned(SOURCE_MAPPINGS[source])

\* a rename that loses the columns it does not rename
RenameDroppingOthers(df, mapping) ==
    LET Matched(c) == c.label \in MappingKeys(mapping)
        kept == SelectSeq(df, Matched)
    IN  [i \in 1..Len(kept) |->
            [kept[i] EXCEPT !.label = Lookup(mapping, @)]]

\* rename_map built over df.columns, then df.rename(columns=rename_map)
RenameColumns(df, mapping) ==
    [i \in 1..Len(df) |->
        IF df[i].label \in MappingKeys(mapping)
        THEN [df[i] EXCEPT !.label = Lookup(mapping, @)]
        ELSE df[i]]

\* df.drop(columns=list(set(df.columns) - set(mapping.values())))
DropExtraColumns(df, mapping) ==
    LET Standard(c) == c.label \in MappingValues(mapping)
    IN  SelectSeq(df, Standard)

\* apply_mapping once get_mapping has had outcome got
ApplyMappingWith(df, got, drop_extra) ==
    IF got.raised # "none" THEN got
    ELSE IF drop_extra
        THEN Returned(DropExtraColumns(RenameColumns(df, got.value), got.value))
    ELSE Returned(RenameColumns(df, got.value))

apply_mapping(df, source, drop_extra) ==
    ApplyMappingWith(df, get_mapping(source), drop_extra)

\* column names of the DataFrames: source headers, canonical names, and
\* names no mapping knows
MappingLabels ==
    {"daima", "mingcheng", "gupiaomingcheng", "zuoshou", "ticker", "extra"}

\* DataFrames of distinct column names
MappingFrames ==
    {[i \in DOMAIN ls |-> [label |-> ls[i], data |-> ls[i]]] :
        ls \in {q \in SeqsUpTo(MappingLabels, MaxColumns) :
                   \A i, j \in DOMAIN q : i # j => q[i] # q[j]}}

InitMapping ==
    /\ store = {}
    /\ columns = RegistryColumns
    /\ now = 1
    /\ pc = "idle"
    /\ txn = {}
    /\ cur = Idle
    /\ last = [op |-> "init"]
    /\ conn = {}
    /\ \E df \in MappingFrames, drop_extra \in BOOLEAN :
       \E source \in DOMAIN SOURCE_MAPPINGS \cup {"tushare_daily"} :
          arg = [fn |-> "mapping", df |-> df, source |-> source,
                 drop_extra |-> drop_extra]
    /\ res = NoArg

\* get_mapping(arg.source)
GetMapping ==
    /\ res = NoArg
    /\ res' = [fn |-> "get_mapping", out |-> get_mapping(arg.source)]
    /\ UNCHANGED <<store, columns, now, pc, txn, cur, last, arg, conn>>

\* apply_mapping(arg.df, arg.source, arg.drop_extra)
ApplyMapping ==
    /\ res = NoArg
    /\ res' = [fn |-> "apply_mapping",
               out |-> apply_mapping(arg.df, arg.source, arg.drop_extra)]
    /\ UNCHANGED <<store, columns, now, pc, txn, cur, last, arg, conn>>

\* apply_mapping on the DataFrame it returned
ApplyMappingAgain ==
    /\ res.fn = "apply_mapping"
    /\ res.out.raised = "none"
    /\ res' = [fn |-> "apply_mapping_again", first |-> res.out.value,
               out |-> apply_mapping(res.out.value, arg.source,
                                     arg.drop_extra)]
    /\ UNCHANGED <<store, columns, now, pc, txn, cur, last, arg, conn>>

NextMapping == GetMapping \/ ApplyMapping \/ ApplyMappingAgain

SpecMapping == InitMapping /\ [][NextMapping]_vars

-----------------------------------------------------------------------------
(* Properties of the field mappings (specification SpecMapping)             *)

Registered == arg.source \in DOMAIN SOURCE_MAPPINGS

\* the name the mapping of arg.source gives the column: its canonical name
\* when it is a key of the mapping, its own name otherwise
StatedLabel(label) ==
    IF \E p \in SOURCE_MAPPINGS[arg.source] : p[1] = label
    THEN CHOOSE v \in MappingValues(SOURCE_MAPPINGS[arg.source]) :
             <<label, v>> \in SOURCE_MAPPINGS[arg.source]
    ELSE label

\* the columns of arg.df under their stated names, in place
StatedRename ==
    [i \in 1..Len(arg.df) |->
        [label |-> StatedLabel(arg.df[i].label), data |-> arg.df[i].data]]

IsCanonicalTarget(c) ==
    \E p \in SOURCE_MAPPINGS[arg.source] : p[2] = c.label

\* C22: for a registered source, apply_mapping without drop_extra returns
\* the columns of the batch in place, as many as before, those named by a
\* key of the source's mapping under their canonical name and every other
\* one untouched, and applied to its own result returns it unchanged; with
\* drop_extra it returns of these columns only those whose name is a
\* canonical target of the mapping; for a source that is not registered
\* get_mapping and apply_mapping raise the unknown-source error.
C22_ApplyMapping ==
    /\ (res.fn = "get_mapping" /\ ~Registered) =>
          res.out.raised = "ValueError"
    /\ (res.fn = "get_mapping" /\ Registered) =>
          res.out = Returned(SOURCE_MAPPINGS[arg.source])
    /\ (res.fn = "apply_mapping" /\ ~Registered) =>
          res.out.raised = "ValueError"
    /\ (res.fn = "apply_mapping" /\ Registered /\ ~arg.drop_extra) =>
          /\ res.out = Returned(StatedRename)
          /\ Len(res.out.value) = Len(arg.df)
    /\ (res.fn = "apply_mapping" /\ Registered /\ arg.drop_extra) =>
          res.out = Returned(SelectSeq(StatedRename, IsCanonicalTarget))
    /\ res.fn = "apply_mapping_again" => res.out = Returned(res.first)

\* a batch with a column the mapping renames and one it does not know has
\* been mapped, without drop_extra, and mapped again
C22_Witness ==
    /\ res.fn = "apply_mapping_again"
    /\ ~arg.drop_extra
    /\ \E i, j \in 1..Len(arg.df) :
          /\ arg.df[i].label = "daima" /\ res.first[i].label = "ticker"
          /\ arg.df[j].label = "extra" /\ res.first[j].label = "extra"



-----------------------------------------------------------------------------
(* Properties of clean_file under a CSV header (specification SpecClean)    *)

CsvCleaned == res.fn = "daily_clean_csv"

\* C23: in the daily loader, a file without a trade_date column whose name
\* carries a date gets that date as the trade_date of every row of the
\* batch; a file without a trade_date column whose name carries none fails
\* and yields no batch; and a file that lacks another header of COLUMN_MAP
\* fails with the missing-columns error, which names exactly the headers
\* the file lacks (trade_date among them only when the name gave no date).
C23_TradeDateFromName ==
    CsvCleaned =>
        /\ ("trade_date" \notin res.header /\ arg.file.name_date # NoDate
               /\ res.out.ok) =>
              \A i \in 1..Len(res.out.rows) :
                  res.out.rows[i].trade_date = arg.file.name_date
        /\ ("trade_date" \notin res.header /\ arg.file.name_date = NoDate) =>
              /\ ~res.out.ok
              /\ res.out.rows = <<>>
        /\ (\E h \in COLUMN_MAP_KEYS \ {"trade_date"} : h \notin res.header) =>
              /\ ~res.out.ok
              /\ res.out.err = "missing_columns"
              /\ res.out.rows = <<>>
              /\ res.missing =
                    {h \in COLUMN_MAP_KEYS :
                        /\ h \notin res.header
                        /\ h = "trade_date" => arg.file.name_date = NoDate}

\* a file named for day 1, without a trade_date column, has been cleaned
\* into a batch of two rows (the trade_date cells of its records, which the
\* CSV does not have, play no part)
C23_Witness ==
    /\ CsvCleaned
    /\ "trade_date" \notin res.header
    /\ arg.file.name_date = 1
    /\ res.out.ok
    /\ Len(res.out.rows) = 2
    /\ \E i \in 1..Len(arg.file.rows) : arg.file.rows[i].trade_date # 1
    /\ \A i \in 1..Len(res.out.rows) : res.out.rows[i].trade_date = 1



-----------------------------------------------------------------------------
(* Properties of the order of the steps of clean_file (SpecClean)           *)

\* the ticker the loader applied gave record i
NormalizedTicker(i) == res.derived[i].ticker

\* a record's code is one that no exchange rule of the loader matches: the
\* normalized ticker is not a code with an exchange suffix
Unclassifiable(i) ==
    IF res.fn = "daily_clean" THEN ~DailyTickerValid(NormalizedTicker(i))
    ELSE ~HistoryTickerValid(NormalizedTicker(i))

\* whenever clean_file returns, the batch is whole: the canonical columns
\* in their order, no key twice, every ticker with its suffix
ReturnsWholeBatch ==
    (CleanFileApplied /\ res.out.ok) =>
        /\ res.cols = EXPECTED_COLUMNS
        /\ ~HasDuplicateKey(res.out.rows)
        /\ \A i \in 1..Len(res.out.rows) : EndsWithSuffix(res.out.rows[i].ticker)

\* C24 as stated: clean_file applies the steps in the order of the contract,
\* so a file (non-empty, with its columns) holding a code that no exchange
\* rule matches fails with the identifier error of step 4, also when it
\* holds an unparsable date (step 6) or a duplicate key (step 9) as well;
\* and whenever clean_file returns, the batch is whole.
C24_EarliestStepFails ==
    /\ (CleanFileApplied /\ \E i \in 1..Len(res.derived) : Unclassifiable(i)) =>
          (~res.out.ok /\ res.out.err = "invalid_ticker")
    /\ ReturnsWholeBatch



-----------------------------------------------------------------------------
(* load_files on a list of files, statement by statement: a list and, for   *)
(* the history loader, a limit are drawn, and load_files runs on them once. *)
(* res.log is the sequence of what load_files has done on its connection:   *)
(* each entry [e, i, ok] is a statement or a call (e), the position in the  *)
(* list of the file it is for (i, 0 for none), and whether it succeeded.    *)

\* limit=None
NoLimit == Null

Ev(e, i, ok) == [e |-> e, i |-> i, ok |-> ok]

\* the files of the lists: one record each, named for the day of the rows
ListFiles(loader) ==
    {f \in FilesOf(loader) : Len(f.rows) = 1 /\ f.name_date \in {NoDate} \cup LoadDates}

\* "if limit is not None and loaded_files >= limit: break", which only the
\* history loader has
LimitReached(loader, limit, loaded_files) ==
    loader = "history" /\ limit # NoLimit /\ loaded_files >= limit

InitList ==
    /\ store = {}
    /\ columns \in {RegistryColumns, ScriptColumns}
    /\ now = 1
    /\ pc = "idle"
    /\ txn = {}
    /\ cur = Idle
    /\ last = [op |-> "init"]
    /\ conn = {}
    /\ \E loader \in {"daily", "history"} :
       \E files \in SeqsUpTo(ListFiles(loader), MaxFiles) :
       \E limit \in IF loader = "history" THEN {NoLimit} \cup 0..MaxFiles
                    ELSE {NoLimit} :
          arg = [fn |-> "load_files", loader |-> loader, files |-> files,
                 limit |-> limit]
    /\ res = [fn |-> "load_files", log |-> <<>>, ok |-> FALSE, err |-> "none"]

\* duckdb.connect, ensure_pre_close_column (history), BEGIN TRANSACTION
ListBegin ==
    /\ pc = "idle"
    /\ res.log = <<>>
    /\ pc' = arg.loader
    /\ columns' = ColumnsForLoad(arg.loader, columns)
    /\ txn' = store
    /\ cur' = [pre |-> store, n |-> 0, written |-> NoWrites]
    /\ conn' = Open(conn, arg.loader)
    /\ res' = [res EXCEPT !.log = <<Ev("connect", 0, TRUE), Ev("BEGIN", 0, TRUE)>>]
    /\ UNCHANGED <<store, now, last, arg>>

\* what one turn of the loop adds to the log for file i: clean_file, and
\* UPSERT_SQL when clean_file returned
TurnEvents(i, cleaned, step) ==
    IF ~cleaned.ok THEN <<Ev("clean_file", i, FALSE)>>
    ELSE <<Ev("clean_file", i, TRUE), Ev("UPSERT", i, step.err = "none")>>

\* the except branch and the end of the with block
RolledBackAndClosed == <<Ev("ROLLBACK", 0, TRUE), Ev("close", 0, TRUE)>>

\* the turn of the loop for file i has had outcome step
ListStepTaken(i, cleaned, step) ==
    /\ IF step.err = "none"
       THEN /\ txn' = step.table
            /\ cur' = [cur EXCEPT !.n = @ + 1,
                                  !.written = Override(@, step.rows)]
            /\ res' = [res EXCEPT !.log = @ \o TurnEvents(i, cleaned, step)]
            /\ UNCHANGED <<store, pc, conn>>
       ELSE /\ store' = Rollback(store, txn)
            /\ txn' = {}
            /\ cur' = [cur EXCEPT !.written = NoWrites]
            /\ pc' = "returned"
            /\ conn' = Close(conn, arg.loader)
            /\ res' = [res EXCEPT !.log = @ \o TurnEvents(i, cleaned, step)
                                              \o RolledBackAndClosed,
                                  !.ok = FALSE, !.err = step.err]
    /\ UNCHANGED <<columns, now, last, arg>>

\* one turn of the loop of load_files: the next file of the list
ListTurn ==
    /\ pc = arg.loader
    /\ cur.n < Len(arg.files)
    /\ ~LimitReached(arg.loader, arg.limit, cur.n)
    /\ \E fault \in BOOLEAN :
          ListStepTaken(cur.n + 1, CleanFile(arg.loader, arg.files[cur.n + 1]),
                        FileStep(arg.loader, columns, txn,
                                 arg.files[cur.n + 1], now, fault))

\* the loop has ended: COMMIT, which the store may fail; it is inside the
\* try block, so a COMMIT that raises is followed by the ROLLBACK of the
\* except branch.  The with block closes the connection.
ListCommit ==
    /\ pc = arg.loader
    /\ cur.n = Len(arg.files) \/ LimitReached(arg.loader, arg.limit, cur.n)
    /\ \E fault \in BOOLEAN :
          /\ store' = IF fault THEN Rollback(store, txn) ELSE Commit(store, txn)
          /\ res' = [res EXCEPT
                        !.log = IF fault
                                THEN @ \o <<Ev("COMMIT", 0, FALSE)>>
                                       \o RolledBackAndClosed
                                ELSE @ \o <<Ev("COMMIT", 0, TRUE),
                                            Ev("close", 0, TRUE)>>,
                        !.ok = ~fault,
                        !.err = IF fault THEN "store_error" ELSE "none"]
    /\ pc' = "returned"
    /\ txn' = {}
    /\ conn' = Close(conn, arg.loader)
    /\ UNCHANGED <<columns, now, cur, last, arg>>

NextList == ListBegin \/ ListTurn \/ ListCommit

SpecList == InitList /\ [][NextList]_vars

-----------------------------------------------------------------------------
(* Properties of load_files on a list (specification SpecList)              *)

LoadReturned == pc = "returned"

\* the statements and calls of the log that are e
Issued(e) == {k \in 1..Len(res.log) : res.log[k].e = e}

\* the entries of the log for the files
FileEvents ==
    SelectSeq(res.log, LAMBDA x : x.e \in {"clean_file", "UPSERT"})

\* the number of files load_files has called clean_file on
Processed == Cardinality(Issued("clean_file"))

\* every file processed was cleaned and upserted without error
AllProcessedLoaded ==
    \A k \in 1..Len(res.log) :
        res.log[k].e \in {"clean_file", "UPSERT"} => res.log[k].ok

\* the files are taken in list order, each once, from the first on: file i
\* is cleaned, then upserted if clean_file returned, then file i + 1; and a
\* failure is the last thing done for any file
InListOrder ==
    /\ Processed <= Len(arg.files)
    /\ \A i \in 1..Processed :
          \E k \in Issued("clean_file") :
              /\ res.log[k].i = i
              /\ \A m \in Issued("clean_file") : res.log[m].i = i => m = k
              /\ \A m \in Issued("clean_file") : res.log[m].i < i => m < k
              /\ res.log[k].ok =>
                    (res.log[k + 1].e = "UPSERT" /\ res.log[k + 1].i = i)
    /\ \A k \in Issued("UPSERT") :
          res.log[k - 1] = Ev("clean_file", res.log[k].i, TRUE)
    /\ \A k \in 1..Len(FileEvents) :
          ~FileEvents[k].ok => k = Len(FileEvents)

\* BEGIN once, right after the connection is opened and before any file;
\* the connection closed last, after COMMIT or ROLLBACK
OneTransaction ==
    /\ res.log[1].e = "connect"
    /\ Issued("BEGIN") = {2}
    /\ Issued("close") = {Len(res.log)}
    /\ Cardinality(Issued("COMMIT")) <= 1
    /\ Cardinality(Issued("ROLLBACK")) <= 1
    /\ \A k \in Issued("COMMIT") \cup Issued("ROLLBACK") :
          \A m \in Issued("clean_file") \cup Issued("UPSERT") : m < k

\* at most the first limit files are processed
WithinLimit ==
    (arg.loader = "history" /\ arg.limit # NoLimit) => Processed <= arg.limit

\* C25: load_files processes the files strictly in list order inside one
\* transaction: BEGIN is issued once before the first file, COMMIT is
\* issued if and only if every processed file was cleaned and upserted
\* without error, and ROLLBACK if and only if a file failed or the COMMIT
\* itself failed (it is then issued after the COMMIT), at least one of the
\* two being issued before the connection closes; the store changes only
\* by a COMMIT that succeeds; after the first failure no later file is
\* cleaned or upserted and nothing is retried; with a limit L at most the
\* first L files are processed.
C25_OrderedSingleTransaction ==
    LoadReturned =>
        /\ OneTransaction
        /\ InListOrder
        /\ WithinLimit
        /\ Issued("COMMIT") # {} <=> AllProcessedLoaded
        /\ Issued("ROLLBACK") # {} <=>
              (~AllProcessedLoaded \/ \E k \in Issued("COMMIT") : ~res.log[k].ok)
        /\ \A k \in Issued("COMMIT"), m \in Issued("ROLLBACK") : k < m
        /\ res.ok <=> \E k \in Issued("COMMIT") : res.log[k].ok
        /\ ~res.ok => store = cur.pre

\* a list of two files has been loaded under one transaction, which
\* committed and left their rows in the store
C25_Witness ==
    /\ LoadReturned
    /\ res.ok
    /\ Processed = 2
    /\ store # {}

\* C25 as stated: BEGIN is followed by exactly one of COMMIT or ROLLBACK
\* before the connection closes, COMMIT being issued if and only if every
\* processed file was cleaned and upserted without error.
C25_ExactlyOneOfCommitRollback ==
    LoadReturned =>
        /\ OneTransaction
        /\ InListOrder
        /\ WithinLimit
        /\ Issued("COMMIT") # {} <=> AllProcessedLoaded
        /\ Cardinality(Issued("COMMIT") \cup Issued("ROLLBACK")) = 1



-----------------------------------------------------------------------------
(* The rename of the daily loader against the field mappings (SpecClean)    *)

\* the mapping renames every pair of the set and has every header that
\* clean_file requires among its keys
CoversRename(mapping, renamed) ==
    /\ renamed \subseteq mapping
    /\ COLUMN_MAP_KEYS \subseteq {p[1] : p \in mapping}

\* C26 as stated: whenever the daily clean_file returns a batch, the
\* (source column, canonical column) pairs it renamed all belong to one
\* mapping registered in SOURCE_MAPPINGS, and every source column the
\* loader requires is a key of that mapping.
C26_RenameIsFieldContract ==
    (CsvCleaned /\ res.out.ok) =>
        \E source \in DOMAIN SOURCE_MAPPINGS :
            CoversRename(SOURCE_MAPPINGS[source], res.renamed)



-----------------------------------------------------------------------------
(* Atomicity of a replacing save (specification Spec)                       *)

\* C27 as stated: when save_daily_market_snapshot with replace=true raises
\* after the validation has passed, the failure of the INSERT that follows
\* the DELETE included, the table holds exactly the rows it held before
\* the call.
C27_ReplaceSaveAtomic ==
    (AtRest /\ last.op = "save" /\ last.replace /\ ~last.ok
        /\ last.err # "missing_columns") => store = last.pre



-----------------------------------------------------------------------------
(* Table structure after a failed load (specification SpecReload)           *)

\* C28 as stated: when the first load_files of the history loader on the
\* list fails and rolls back, daily_market_snapshot has the rows and the
\* columns it had before the call: the column that ensure_pre_close_column
\* added is rolled back with the load.
C28_FailedLoadKeepsStructure ==
    (res.fn = "load_files" /\ arg.loader = "history" /\ res.runs = 1
        /\ ~res.ok) =>
        /\ store = arg.table
        /\ columns = arg.columns



-----------------------------------------------------------------------------
(* The two limit flags of one row (specification SpecClean)                 *)

\* a row whose pre_close or close was coerced to null has neither flag
NullPriceNoFlag ==
    (CleanFileApplied /\ res.out.ok) =>
        \A i \in 1..Len(res.out.rows) :
            (res.out.rows[i].pre_close = Null \/ res.out.rows[i].close = Null)
                => (~res.out.rows[i].is_limit_up /\ ~res.out.rows[i].is_limit_down)

\* C29 as stated: in every row clean_file returns whose pre_close is above
\* zero, is_limit_up and is_limit_down are not both true; and a row whose
\* pre_close or close was coerced to null has both flags false.
C29_LimitFlagsExclusive ==
    /\ (CleanFileApplied /\ res.out.ok) =>
          \A i \in 1..Len(res.out.rows) :
              (res.out.rows[i].pre_close # Null /\ res.out.rows[i].pre_close > 0)
                  => ~(res.out.rows[i].is_limit_up /\ res.out.rows[i].is_limit_down)
    /\ NullPriceNoFlag



-----------------------------------------------------------------------------
(* The two loaders on the same record (specification SpecClean)             *)

\* what the loader that was not applied makes of the file
OtherLoaderOut ==
    IF res.fn = "daily_clean" THEN HistoryCleanFile(arg.file)
    ELSE DailyCleanFile(arg.file)

\* and the record it derives, limit_pct included
OtherLoaderDerived ==
    IF res.fn = "daily_clean" THEN HistoryDerive(arg.file, arg.file.rows[1])
    ELSE DailyDerive(arg.file, arg.file.rows[1])

\* C30 as stated: for a file of one record, dated as the file is named,
\* whose raw code has no exchange suffix, clean_file of
\* load_daily_snapshot and clean_file of
\* load_history_from_stock_csv either both reject the record or both
\* accept it, with the same normalized ticker and the same limit
\* percentage.
C30_LoadersSameContract ==
    (CleanFileApplied /\ Len(arg.file.rows) = 1
        /\ arg.file.rows[1].trade_date = arg.file.name_date
        /\ AllDigits(arg.file.rows[1].ticker)) =>
        /\ res.out.ok <=> OtherLoaderOut.ok
        /\ res.out.ok =>
              /\ res.out.rows[1].ticker = OtherLoaderOut.rows[1].ticker
              /\ res.derived[1].limit_pct = OtherLoaderDerived.limit_pct


=============================================================================
